---------------------------- MODULE Spec2Model ----------------------------
(***************************************************************************)
(* Model of the ARC Raiders wiki single-page application.  The repository  *)
(* holds four revisions of the same App component:                         *)
(*   "v14"  src/src/App.tsx lines 1-382    (fuzzy-key classifier, cache    *)
(*          key arc_wiki_items_cache_v14)                                  *)
(*   "v2"   src/src/App.tsx lines 383-753  (grid revision, cache key       *)
(*          arc_wiki_items_cache_v2)                                       *)
(*   "p1"   src/unnamed/part_001           (keyword truth-table revision)  *)
(*   "p2"   src/unnamed/part_002           (API / just-in-time revision)   *)
(* A behaviour runs one revision, fixed by the variable rev.               *)
(*                                                                         *)
(* JavaScript strings are modelled as sequences of one-character strings,  *)
(* so that toLowerCase, trim, replace, includes, startsWith and endsWith   *)
(* are computed character by character as the code computes them.          *)
(***************************************************************************)
EXTENDS Integers, Sequences, FiniteSets, TLC

(***************************************************************************)
(* Characters and string primitives                                        *)
(***************************************************************************)

UpperChars == <<"A","B","C","D","E","F","G","H","I","J","K","L","M","N","O","P","Q","R","S","T","U","V","W","X","Y","Z">>

LowerChars == <<"a","b","c","d","e","f","g","h","i","j","k","l","m","n","o","p","q","r","s","t","u","v","w","x","y","z">>

DigitChars == <<"0","1","2","3","4","5","6","7","8","9">>

Range(s) == {s[i] : i \in DOMAIN s}

\* String.prototype.toLowerCase on one character
LowerChar(c) ==
    IF \E i \in DOMAIN UpperChars : UpperChars[i] = c
    THEN LowerChars[CHOOSE i \in DOMAIN UpperChars : UpperChars[i] = c]
    ELSE c

\* String.prototype.toLowerCase
ToLowerCase(s) == [i \in 1..Len(s) |-> LowerChar(s[i])]

\* the character class [a-z0-9]
IsAlnum(c) == c \in Range(LowerChars) \cup Range(DigitChars)

\* s.replace(/[^a-z0-9]/g, '')
StripNonAlnum(s) == SelectSeq(s, IsAlnum)

\* String.prototype.trim (the only white space of the model is the blank)
Trim(s) ==
    LET solid == {i \in DOMAIN s : s[i] # " "}
    IN  IF solid = {} THEN <<>>
        ELSE SubSeq(s, CHOOSE i \in solid : \A j \in solid : i <= j,
                       CHOOSE i \in solid : \A j \in solid : i >= j)

\* String.prototype.startsWith
StartsWith(s, t) == Len(s) >= Len(t) /\ SubSeq(s, 1, Len(t)) = t

\* String.prototype.endsWith
EndsWith(s, t) == Len(s) >= Len(t) /\ SubSeq(s, Len(s) - Len(t) + 1, Len(s)) = t

\* String.prototype.includes
Includes(s, t) == \E i \in 0..(Len(s) - Len(t)) : SubSeq(s, i + 1, i + Len(t)) = t

\* s.replace(/ x$/, d): the suffix of length n replaced by d (s ends with it)
ReplaceSuffix(s, n, d) == SubSeq(s, 1, Len(s) - n) \o d

\* s.replace(t, r) with a string pattern: the first occurrence only
ReplaceFirst(s, t, r) ==
    IF ~Includes(s, t) THEN s
    ELSE LET at == CHOOSE i \in 0..(Len(s) - Len(t)) :
                      /\ SubSeq(s, i + 1, i + Len(t)) = t
                      /\ \A j \in 0..(i - 1) : SubSeq(s, j + 1, j + Len(t)) # t
         IN  SubSeq(s, 1, at) \o r \o SubSeq(s, at + Len(t) + 1, Len(s))

(***************************************************************************)
(* String literals of the source and of the test data                      *)
(***************************************************************************)
S_wire == <<"w","i","r","e">>  \* "wire"

S_Wire == <<"W","i","r","e">>  \* "Wire"

S_AnvilI == <<"A","n","v","i","l"," ","I">>  \* "Anvil I"

S_anvil_1 == <<"a","n","v","i","l","_","1">>  \* "anvil_1"

S_ANVIL_1 == <<"A","N","V","I","L","-","1">>  \* "ANVIL-1"

S_arc_wire == <<"A","R","C"," ","W","i","r","e">>  \* "ARC Wire"

S_fuse == <<"f","u","s","e">>  \* "fuse"

S_Fuse == <<"F","u","s","e">>  \* "Fuse"

S_scrap == <<"s","c","r","a","p">>  \* "scrap"

S_Scrap == <<"S","c","r","a","p">>  \* "Scrap"

S_unknown == <<"u","n","k","n","o","w","n">>  \* "unknown"

S_Unknown == <<"U","n","k","n","o","w","n">>  \* "Unknown"

S_json == <<".","j","s","o","n">>  \* ".json"

S_wire_json == <<"w","i","r","e",".","j","s","o","n">>  \* "wire.json"

S_AnvilI_json == <<"A","n","v","i","l"," ","I",".","j","s","o","n">>  \* "Anvil I.json"

S_fuse_json == <<"f","u","s","e",".","j","s","o","n">>  \* "fuse.json"

S_scrap_json == <<"s","c","r","a","p",".","j","s","o","n">>  \* "scrap.json"

S_BenchUpgrade == <<"B","e","n","c","h"," ","U","p","g","r","a","d","e">>  \* "Bench Upgrade"

S_Caravan == <<"C","a","r","a","v","a","n">>  \* "Caravan"

S_ClusterModule == <<"C","l","u","s","t","e","r"," ","M","o","d","u","l","e">>  \* "Cluster Module"

S_CameraLens == <<"C","a","m","e","r","a"," ","L","e","n","s">>  \* "Camera Lens"

S_upgrade == <<"u","p","g","r","a","d","e">>  \* "upgrade"

S_station == <<"s","t","a","t","i","o","n">>  \* "station"

S_level == <<"l","e","v","e","l">>  \* "level"

S_gunsmith == <<"g","u","n","s","m","i","t","h">>  \* "gunsmith"

S_medical == <<"m","e","d","i","c","a","l">>  \* "medical"

S_bench == <<"b","e","n","c","h">>  \* "bench"

S_stash == <<"s","t","a","s","h">>  \* "stash"

S_module == <<"m","o","d","u","l","e">>  \* "module"

S_arc_ == <<"a","r","c"," ">>  \* "arc "

S_i == <<" ","i">>  \* " i"

S_ii == <<" ","i","i">>  \* " ii"

S_iii == <<" ","i","i","i">>  \* " iii"

S_iv == <<" ","i","v">>  \* " iv"

S_AnvilIV == <<"A","n","v","i","l"," ","I","V">>  \* "Anvil IV"

S_MkII == <<"M","k"," ","i","i">>  \* "Mk ii"

(***************************************************************************)
(* generateFuzzyKeys (src/src/App.tsx 38-68).  The code returns an array   *)
(* built from a Set; every use of it (forEach-add, some-has) depends only  *)
(* on membership, so the result is modelled as a set of strings.           *)
(***************************************************************************)
RomanNormalize(lower) ==
    IF EndsWith(lower, S_i) THEN ReplaceSuffix(lower, Len(S_i), <<"1">>)
    ELSE IF EndsWith(lower, S_ii) THEN ReplaceSuffix(lower, Len(S_ii), <<"2">>)
    ELSE IF EndsWith(lower, S_iii) THEN ReplaceSuffix(lower, Len(S_iii), <<"3">>)
    ELSE IF EndsWith(lower, S_iv) THEN ReplaceSuffix(lower, Len(S_iv), <<"4">>)
    ELSE lower

\* mutant: the Roman-numeral step (step 3) left out
generateFuzzyKeysNoRoman(raw) ==
    IF raw = <<>> THEN {}
    ELSE LET lower == Trim(ToLowerCase(raw))
         IN  {lower, StripNonAlnum(lower)}
                \cup (IF StartsWith(lower, S_arc_)
                      THEN {StripNonAlnum(ReplaceFirst(lower, S_arc_, <<>>))}
                      ELSE {})

generateFuzzyKeys(raw) ==
    IF raw = <<>> THEN {}
    ELSE LET lower == Trim(ToLowerCase(raw))
         IN  {lower, StripNonAlnum(lower), StripNonAlnum(RomanNormalize(lower))}
                \cup (IF StartsWith(lower, S_arc_)
                      THEN {StripNonAlnum(ReplaceFirst(lower, S_arc_, <<>>))}
                      ELSE {})

(***************************************************************************)
(* State                                                                   *)
(***************************************************************************)
VARIABLES
    \* --- which revision runs, and what the network may do ---
    rev,            \* "v14" | "v2" | "p1" | "p2"
    faults,         \* TRUE when fetches of this behaviour may fail
    \* --- the remote data sets (fixed during a behaviour) ---
    srvItems,       \* item files and their content / the API's item records
    srvProjects,    \* projects.json
    srvQuests,      \* quests.json / the API's quest records
    srvTrades,      \* trades.json
    srvPageCap,     \* the most records the API puts on one page
    \* --- the browser ---
    now,            \* Date.now()
    cache,          \* localStorage entry under the revision's CACHE_KEY
    \* --- the load routine (fetchData / init) ---
    pc,             \* position of the load routine
    loads,          \* page loads started so far
    fetches,        \* network requests issued by the current load
    listFailed,     \* the current load's fetch of the primary item list failed
    loadedAt,       \* Date.now() when a load that got the item list last set
                    \* the fetched items, -1 before
    itemsList,      \* const itemsList
    projectsData,   \* const projectsData / projects
    questsData,     \* const questsData / quests
    tradesData,     \* const tradesData / trades
    rawItems,       \* const rawItems
    chunkStart,     \* loop variable i of the chunk loop
    page,           \* loop variable page of fetchApiList
    auxOutcomes,    \* what the fetches of the auxiliary data sets of the current
                    \* load came to: projects.json first
    fileOutcomes,   \* what the fetches of the item files of the current load
                    \* came to, in the order of the listing
    requested,      \* the names of the item files that the current load has
                    \* called fetch for, in the order of the calls
    \* --- React state of App ---
    items, loading, error,
    rawProjects,    \* part_001: the projects kept for the detail view
    view, activeCategory, selectedItem, detailItem, isDetailLoading,
    search, sortBy,
    raidMode,       \* v14, part_001: the raid mode toggle
    pending,        \* part_002: the items whose fetchGithubDetail is in flight
    lastCall,       \* part_002: item and ghDetail of the call of goDetail that
                    \* resumed last since the last click on a card, none before
    lastView,       \* view and activeCategory as they were when the view was
                    \* last not DETAIL
    \* --- generateFuzzyKeys applied to two identifiers ---
    rawA, rawB, keysA, keysB, keysDone,
    \* --- one ArcImage component and its img element ---
    imgFiles,       \* the URLs under images/items that the server has a file for
    imgId,          \* item.id of the item the component renders
    loadState,      \* part_001: useState of ArcImage
    src,            \* App.tsx: useState of ArcImage
    domSrc,         \* the src attribute of the img element as it was set last,
                    \* <<>> while no img element is rendered
    imgLoading,     \* the img element is fetching domSrc
    opacity,        \* style.opacity of the img element
    effectPending,  \* the effect of [item.id] has not run since item.id changed
    imgRequested,   \* the URLs the img element has fetched for imgId
    imgErrors,      \* error events handled for imgId, up to MaxImgErrors
    imgTurn,        \* the parity of the number of error events handled
    imgChanges      \* changes of item.id so far

srvVars == <<srvItems, srvProjects, srvQuests, srvTrades, srvPageCap>>

envVars == <<rev, faults>>

loadVars == <<pc, loads, fetches, listFailed, loadedAt, itemsList, projectsData, questsData,
              tradesData, rawItems, chunkStart, page, auxOutcomes, fileOutcomes,
              requested>>

dataVars == <<items, loading, error, rawProjects>>

viewVars == <<view, activeCategory, selectedItem, detailItem, isDetailLoading,
              search, sortBy, raidMode, pending, lastCall, lastView>>

keyVars == <<rawA, rawB, keysA, keysB, keysDone>>

imgVars == <<imgFiles, imgId, loadState, src, domSrc, imgLoading, opacity, effectPending,
             imgRequested, imgErrors, imgTurn, imgChanges>>

vars == <<envVars, srvVars, now, cache, loadVars, dataVars, viewVars, keyVars, imgVars>>

\* null, for the category
Null == "null"

\* null, for the error message
NoError == "null"

\* selectedItem and detailItem hold null or one item: a sequence of length 0 or 1
NullItem == <<>>

Some(item) == <<item>>

\* a JSON value that is no array (itemsList before the fetch, or an error body)
NotArray == [isArray |-> FALSE, list |-> <<>>]

Array(list) == [isArray |-> TRUE, list |-> list]

(***************************************************************************)
(* Initial values                                                          *)
(***************************************************************************)
\* localStorage.getItem(CACHE_KEY) === null
NoCache == [kind |-> "none", timestamp |-> 0, data |-> <<>>]

\* an entry that JSON.parse or the destructuring rejects
CorruptCache == [kind |-> "corrupt", timestamp |-> 0, data |-> <<>>]

\* the value undefined where items are expected: no array
Undefined == <<[undefined |-> TRUE]>>

\* the entry '{}': JSON.parse and the destructuring succeed, timestamp and
\* data are undefined, and Date.now() - undefined < CACHE_DURATION is false
EmptyObjectCache == [kind |-> "empty", timestamp |-> 0, data |-> Undefined]

\* the entry '{"timestamp": ts}': data is undefined
NoDataCache(ts) == [kind |-> "nodata", timestamp |-> ts, data |-> Undefined]

\* JSON.stringify({timestamp, data}); the data are strings, finite numbers,
\* booleans and arrays of them, which JSON.parse gives back unchanged
CacheEntry(ts, data) == [kind |-> "entry", timestamp |-> ts, data |-> data]

\* useState initial values of App (v14: App.tsx 98-108, v2: 408-413,
\* p1: part_001 356-367, p2: part_002 294-305)
ReactInit ==
    /\ items = <<>>
    /\ loading = TRUE
    /\ error = NoError
    /\ rawProjects = <<>>
    /\ view = "DASHBOARD"
    /\ activeCategory = Null
    /\ selectedItem = NullItem
    /\ detailItem = NullItem
    /\ isDetailLoading = FALSE
    /\ search = <<>>
    /\ sortBy = "Name"
    /\ raidMode = FALSE
    /\ pending = <<>>
    /\ lastCall = <<>>
    /\ lastView = <<"DASHBOARD", Null>>

\* the load routine has not run yet
LoadInit ==
    /\ pc = "start"
    /\ loads = 0
    /\ fetches = 0
    /\ listFailed = FALSE
    /\ loadedAt = -1
    /\ itemsList = NotArray
    /\ projectsData = <<>>
    /\ questsData = <<>>
    /\ tradesData = <<>>
    /\ rawItems = <<>>
    /\ chunkStart = 0
    /\ page = 1
    /\ auxOutcomes = <<>>
    /\ fileOutcomes = <<>>
    /\ requested = <<>>

KeysIdle ==
    /\ rawA = <<>>
    /\ rawB = <<>>
    /\ keysA = {}
    /\ keysB = {}
    /\ keysDone = FALSE

\* no ArcImage is looked at
ImageIdle ==
    /\ imgFiles = {}
    /\ imgId = <<>>
    /\ loadState = "primary"
    /\ src = <<>>
    /\ domSrc = <<>>
    /\ imgLoading = FALSE
    /\ opacity = "1"
    /\ effectPending = FALSE
    /\ imgRequested = {}
    /\ imgErrors = 0
    /\ imgTurn = 0
    /\ imgChanges = 0

NoServer ==
    /\ srvItems = <<>>
    /\ srvProjects = <<>>
    /\ srvQuests = <<>>
    /\ srvTrades = <<>>
    /\ srvPageCap = 100    \* the limit of the requests

(***************************************************************************)
(* SpecKeys: generateFuzzyKeys on pairs of identifiers, and the match test *)
(* of the classifier (myKeys.some(k => questKeys.has(k)), App.tsx 199-204) *)
(***************************************************************************)
KeyInputs ==
    {S_AnvilI, S_anvil_1, S_ANVIL_1, S_AnvilIV, S_MkII, S_wire, S_Wire,
     S_arc_wire, S_fuse, S_scrap, S_i, <<>>}

InitKeys ==
    /\ rev = "v14"
    /\ faults = FALSE
    /\ NoServer
    /\ now = 0
    /\ cache = NoCache
    /\ LoadInit
    /\ ReactInit
    /\ rawA \in KeyInputs
    /\ rawB \in KeyInputs
    /\ keysA = {}
    /\ keysB = {}
    /\ keysDone = FALSE
    /\ ImageIdle

\* the two calls of generateFuzzyKeys: on a referenced identifier (addReq)
\* and on an item's own identifier (myKeys)
GenerateKeys ==
    /\ ~keysDone
    /\ keysA' = generateFuzzyKeys(rawA)
    /\ keysB' = generateFuzzyKeys(rawB)
    /\ keysDone' = TRUE
    /\ UNCHANGED <<rawA, rawB, envVars, srvVars, now, cache, loadVars, dataVars, viewVars,
                   imgVars>>

NextKeys == GenerateKeys

SpecKeys == InitKeys /\ [][NextKeys]_vars

\* the identifiers match in the classifier: some key of one is a key of the other
FuzzyMatch == keysA \cap keysB # {}

AnvilSpellings == {S_AnvilI, S_anvil_1, S_ANVIL_1}

\* C5: generateFuzzyKeys gives "Anvil I", "anvil_1" and "ANVIL-1" a key common
\* to all three ("anvil1"), so any two of the spellings match each other.
C5_AnvilSpellingsShareKey ==
    (keysDone /\ rawA \in AnvilSpellings /\ rawB \in AnvilSpellings)
        => /\ FuzzyMatch
           /\ (generateFuzzyKeys(S_AnvilI) \cap generateFuzzyKeys(S_anvil_1))
                 \cap generateFuzzyKeys(S_ANVIL_1) # {}
           /\ StripNonAlnum(S_anvil_1) \in keysA \cap keysB

C5_Witness ==
    keysDone /\ rawA = S_AnvilI /\ rawB = S_ANVIL_1 /\ FuzzyMatch

\* more string literals
S_Common == <<"C","o","m","m","o","n">>  \* "Common"

S_Rare == <<"R","a","r","e">>  \* "Rare"

S_Epic == <<"E","p","i","c">>  \* "Epic"

S_Standard == <<"S","t","a","n","d","a","r","d">>  \* "Standard"

S_common == <<"c","o","m","m","o","n">>  \* "common"

S_uncommon == <<"u","n","c","o","m","m","o","n">>  \* "uncommon"

S_rare == <<"r","a","r","e">>  \* "rare"

S_epic == <<"e","p","i","c">>  \* "epic"

S_legendary == <<"l","e","g","e","n","d","a","r","y">>  \* "legendary"

S_standard == <<"s","t","a","n","d","a","r","d">>  \* "standard"

S_Adrenaline == <<"A","d","r","e","n","a","l","i","n","e">>  \* "Adrenaline"

S_lens == <<"l","e","n","s">>  \* "lens"

S_camera_lens == <<"c","a","m","e","r","a","_","l","e","n","s">>  \* "camera_lens"

S_Celeste == <<"C","e","l","e","s","t","e">>  \* "Celeste"

S_Lance == <<"L","a","n","c","e">>  \* "Lance"

S_id == <<"i","d">>  \* "id"

S_name == <<"n","a","m","e">>  \* "name"

S_trader == <<"t","r","a","d","e","r">>  \* "trader"

S_objectives == <<"o","b","j","e","c","t","i","v","e","s">>  \* "objectives"

S_item == <<"i","t","e","m">>  \* "item"

S_cost == <<"c","o","s","t">>  \* "cost"

S_count == <<"c","o","u","n","t">>  \* "count"

S_en == <<"e","n">>  \* "en"

S_lens_json == <<"l","e","n","s",".","j","s","o","n">>  \* "lens.json"

S_wi == <<"w","i">>  \* "wi"

S_q1 == <<"q","1">>  \* "q1"

S_q2 == <<"q","2">>  \* "q2"

S_thumper == <<"t","h","u","m","p","e","r">>  \* "thumper"

S_thumper_json == <<"t","h","u","m","p","e","r",".","j","s","o","n">>  \* "thumper.json"

S_ThumperBattery == <<"T","h","u","m","p","e","r"," ","B","a","t","t","e","r","y">>  \* "Thumper Battery"

S_cable == <<"c","a","b","l","e">>  \* "cable"

S_cable_json == <<"c","a","b","l","e",".","j","s","o","n">>  \* "cable.json"

S_WireCable == <<"W","i","r","e"," ","C","a","b","l","e">>  \* "Wire Cable"

(***************************************************************************)
(* JSON values of the remote data sets.  A JSON string is a character      *)
(* sequence; an absent or empty string field is <<>> (both are falsy in    *)
(* every test the code makes on them).  A field that is a string in one    *)
(* record and an object in another (the localized names) is a tagged       *)
(* record, and so is a number that may be non-numeric.                     *)
(***************************************************************************)
Str(s) == [t |-> "str", s |-> s]        \* "Wire"

Obj(s) == [t |-> "obj", s |-> s]        \* {en: "Wire"}

NoText == [t |-> "none", s |-> <<>>]    \* field absent

Num(n) == [ok |-> TRUE, n |-> n]        \* a JSON number

NaN == [ok |-> FALSE, n |-> 0]          \* absent or not numeric: Number(x) is NaN

\* a truthy JSON value (data && ..., item.name || ...)
Truthy(text) == text.t = "obj" \/ (text.t = "str" /\ text.s # <<>>)

\* getText (App.tsx 110-115, 416-421; part_001 369-374)
getText(data) ==
    IF ~Truthy(data) THEN S_Unknown
    ELSE IF data.t = "str" THEN data.s
    ELSE IF data.s # <<>> THEN data.s     \* data.en
    ELSE S_Unknown

\* Number(x) || d  (App.tsx 214-216, 511-513; part_001 427-429)
NumberOr(v, d) == IF v.ok /\ v.n # 0 THEN v.n ELSE d

\* safeNum (part_002 13)
safeNum(v) == IF v.ok THEN v.n ELSE 0

\* x || d on strings
StrOr(s, d) == IF s # <<>> THEN s ELSE d

\* an item file of the data repository (or a record of the items API)
RawItem(fileName, id, name, rarity, weight, value) ==
    [fileName |-> fileName, id |-> id, name |-> name, rarity |-> rarity,
     weight |-> weight, sell_value |-> value]

\* a cost / yield / objective entry {item, count}
Ref(item, count) == [item |-> item, count |-> count]

\* a record of quests.json (or of the quests API)
Quest(id, name, trader, objectives, cost) ==
    [id |-> id, name |-> name, trader |-> trader, objectives |-> objectives,
     cost |-> cost]

\* a record of projects.json; costKind is "array", "dict" or "none"
Project(name, costKind, cost, yield) ==
    [name |-> name, costKind |-> costKind, cost |-> cost, yield |-> yield]

\* a record of trades.json
Trade(itemId, trader, offer) == [itemId |-> itemId, trader |-> trader, offer |-> offer]

\* all sequences without repetition of at most n elements of S
InjSeqs(S, n) ==
    UNION {{s \in [1..k -> S] : \A i, j \in 1..k : i # j => s[i] # s[j]} : k \in 0..n}

(***************************************************************************)
(* Revision v14: the fuzzy-key classifier (App.tsx 146-225)                *)
(***************************************************************************)
\* file.name.replace('.json', '')  (App.tsx 185, part_001 401)
FileNameId(fileName) == ReplaceFirst(fileName, S_json, <<>>)

\* what one item fetch of the chunk loop yields: null, or the file's data
\* with _fileNameId added
NullRaw == [isNull |-> TRUE, fileNameId |-> <<>>, data |-> RawItem(<<>>, <<>>, NoText, <<>>, NaN, NaN)]

Fetched(file) == [isNull |-> FALSE, fileNameId |-> FileNameId(file.fileName), data |-> file]

\* fetched by revision v2, which adds no _fileNameId
FetchedPlain(file) == [isNull |-> FALSE, fileNameId |-> <<>>, data |-> file]

\* mutant: the index also takes the quest's own id
QuestItemRefsWithId(quest) ==
    ({quest.objectives[i].item : i \in DOMAIN quest.objectives}
        \cup {quest.cost[i].item : i \in DOMAIN quest.cost}
        \cup {quest.id}) \ {<<>>}

\* the identifiers a quest refers to: o.item of objectives and c.item of cost,
\* where truthy (App.tsx 155-156)
QuestItemRefs(quest) ==
    ({quest.objectives[i].item : i \in DOMAIN quest.objectives}
        \cup {quest.cost[i].item : i \in DOMAIN quest.cost}) \ {<<>>}

\* questKeys after "Index Quests" (App.tsx 148, 153-157)
questKeys(quests) ==
    UNION {UNION {generateFuzzyKeys(r) : r \in QuestItemRefs(quests[q])} : q \in DOMAIN quests}

\* isUpgrade of a project (App.tsx 161-162)
IsUpgradeProject(proj) ==
    LET pName == ToLowerCase(getText(proj.name))
    IN  \/ Includes(pName, S_upgrade) \/ Includes(pName, S_station)
        \/ Includes(pName, S_level) \/ Includes(pName, S_gunsmith)
        \/ Includes(pName, S_medical) \/ Includes(pName, S_bench)
        \/ Includes(pName, S_stash)

\* the fuzzy keys of the cost entries of the projects with the given isUpgrade
\* (App.tsx 160-173); a project without cost contributes nothing
CostKeys(projects, upgrade) ==
    UNION {UNION {generateFuzzyKeys(projects[p].cost[i].item) : i \in DOMAIN projects[p].cost}
             : p \in {q \in DOMAIN projects : /\ projects[q].costKind = "array"
                                              /\ IsUpgradeProject(projects[q]) = upgrade}}

upgradeKeys(projects) == CostKeys(projects, TRUE)

projectKeys(projects) == CostKeys(projects, FALSE)

\* proj.cost.forEach is not a function: a cost that is an object, not an array,
\* makes the index loop throw (App.tsx 164-165)
IndexThrowsV14(projects) == \E p \in DOMAIN projects : projects[p].costKind = "dict"

\* the filter of "Process Items" (App.tsx 193)
KeptV14(raw) == ~raw.isNull /\ (raw.fileNameId # <<>> \/ Truthy(raw.data.name))

\* safeId (App.tsx 196)
SafeIdV14(raw) == StrOr(raw.fileNameId, StrOr(raw.data.id, S_unknown))

\* mutant: isSafe forgets the quest match
ClassifyV14QuestStaysSafe(raw, quests, projects) ==
    LET safeId == SafeIdV14(raw)
        myKeys == generateFuzzyKeys(safeId)
        isQuest == myKeys \cap questKeys(quests) # {}
        isUpgrade == myKeys \cap upgradeKeys(projects) # {}
        isProject == myKeys \cap projectKeys(projects) # {} /\ ~isUpgrade
        isSafe == ~isProject /\ ~isUpgrade
    IN  [id |-> safeId, name |-> getText(raw.data.name),
         rarity |-> StrOr(raw.data.rarity, S_Common),
         weight |-> NumberOr(raw.data.weight, 0),
         sell_value |-> NumberOr(raw.data.sell_value, 0),
         isQuestItem |-> isQuest, isProjectItem |-> isProject,
         isUpgradeItem |-> isUpgrade, isSafeToRecycle |-> isSafe,
         usedInQuests |-> <<>>, usedInProjects |-> <<>>]

\* the map of "Process Items" (App.tsx 194-225).  The display-only fields type,
\* description, max_stack_size and imgUrl are left out of the record.
ClassifyV14(raw, quests, projects) ==
    LET safeId == SafeIdV14(raw)
        myKeys == generateFuzzyKeys(safeId)
        isQuest == myKeys \cap questKeys(quests) # {}
        isUpgrade == myKeys \cap upgradeKeys(projects) # {}
        isProject == myKeys \cap projectKeys(projects) # {} /\ ~isUpgrade
        isSafe == ~isQuest /\ ~isProject /\ ~isUpgrade
    IN  [id |-> safeId, name |-> getText(raw.data.name),
         rarity |-> StrOr(raw.data.rarity, S_Common),
         weight |-> NumberOr(raw.data.weight, 0),
         sell_value |-> NumberOr(raw.data.sell_value, 0),
         isQuestItem |-> isQuest, isProjectItem |-> isProject,
         isUpgradeItem |-> isUpgrade, isSafeToRecycle |-> isSafe,
         usedInQuests |-> <<>>, usedInProjects |-> <<>>]

\* rawItems.filter(...).map(...) (App.tsx 192-225)
ProcessV14(raws, quests, projects) ==
    LET kept == SelectSeq(raws, KeptV14)
    IN  [i \in 1..Len(kept) |-> ClassifyV14(kept[i], quests, projects)]

(***************************************************************************)
(* Revision p1: the keyword truth table (part_001 210-216, 410-440)        *)
(***************************************************************************)
\* OVERRIDES.QUEST (part_001 211)
OVERRIDES_QUEST ==
    {<<"A","d","r","e","n","a","l","i","n","e">>,
     <<"U","n","i","q","u","e"," ","U","p","l","i","n","k">>,
     <<"D","r","o","n","e"," ","T","o","o","l">>,
     <<"B","a","r","r","i","c","a","d","e">>,
     <<"C","a","m","e","r","a"," ","L","e","n","s">>,
     <<"A","n","t","i","s","e","p","t","i","c">>,
     <<"S","t","a","n","d","a","r","d"," ","C","o","r","e">>,
     <<"S","y","r","i","n","g","e">>,
     <<"S","u","r","g","e"," ","S","p","l","i","n","t">>,
     <<"T","h","u","m","p","e","r">>,
     <<"O","p","t","i","c","s"," ","P","a","c","k","a","g","e">>,
     <<"D","a","t","a"," ","D","r","i","v","e">>,
     <<"M","e","m","o","r","y"," ","C","h","i","p">>,
     <<"G","y","r","o","s","c","o","p","e">>}

\* OVERRIDES.PROJECT (part_001 212)
OVERRIDES_PROJECT ==
    {<<"A","d","v","a","n","c","e","d"," ","A","R","C">>,
     <<"C","o","m","p","a","c","t"," ","P","o","w","e","r">>,
     <<"M","a","g","n","e","t","i","c"," ","S","t","a","b","i","l","i","z","e","r">>,
     <<"C","l","u","s","t","e","r"," ","M","o","d","u","l","e">>,
     <<"A","d","v","a","n","c","e","d"," ","E","l","e","c","t","r","i","c","a","l">>,
     <<"M","o","d","u","l","a","t","o","r">>,
     <<"S","e","n","s","o","r","s">>,
     <<"C","o","o","l","i","n","g"," ","F","a","n">>,
     <<"B","a","t","t","e","r","y">>,
     <<"L","i","g","h","t"," ","B","u","l","b">>,
     <<"E","l","e","c","t","r","i","c","a","l"," ","C","o","m","p","o","n","e","n","t">>,
     <<"W","i","r","e">>,
     <<"D","u","r","a","b","l","e"," ","C","l","o","t","h">>,
     <<"S","t","e","e","l"," ","C","a","b","l","i","n","g">>,
     <<"A","R","C"," ","A","l","l","o","y">>,
     <<"R","u","b","b","e","r"," ","P","a","r","t","s">>,
     <<"H","a","r","d"," ","P","l","a","s","t","i","c">>,
     <<"T","r","a","n","s","f","o","r","m","e","r">>,
     <<"B","a","l","l"," ","B","e","a","r","i","n","g">>}

\* OVERRIDES.UPGRADE (part_001 213)
OVERRIDES_UPGRADE ==
    {<<"A","n","g","l","e","d"," ","G","r","i","p">>,
     <<"M","u","z","z","l","e">>,
     <<"S","c","o","p","e">>,
     <<"S","t","o","c","k">>,
     <<"R","e","c","e","i","v","e","r">>,
     <<"B","a","r","r","e","l">>,
     <<"M","a","g","a","z","i","n","e">>,
     <<"T","w","e","e","z","e","r","s">>,
     <<"B","l","o","o","d"," ","B","a","g">>,
     <<"M","o","n","i","t","o","r">>,
     <<"P","i","l","l","s">>,
     <<"C","h","e","m","i","c","a","l","s">>,
     <<"G","a","s"," ","C","a","n","i","s","t","e","r">>,
     <<"S","p","a","r","k"," ","P","l","u","g">>,
     <<"F","u","s","e">>,
     <<"B","o","t","t","l","e">>,
     <<"G","u","n","p","o","w","d","e","r">>,
     <<"I","g","n","i","t","e","r">>,
     <<"C","a","b","l","e">>,
     <<"S","c","r","e","e","n">>,
     <<"L","e","n","s">>,
     <<"C","i","r","c","u","i","t">>,
     <<"R","e","s","i","n">>,
     <<"C","a","n","i","s","t","e","r">>,
     <<"F","i","l","t","e","r">>,
     <<"T","o","o","l","b","o","x">>,
     <<"D","r","i","l","l">>,
     <<"F","r","u","i","t">>,
     <<"V","e","g","e","t","a","b","l","e">>,
     <<"F","o","o","d">>,
     <<"W","a","t","e","r">>,
     <<"S","e","e","d">>,
     <<"T","a","p","e">>,
     <<"G","l","u","e">>,
     <<"F","a","b","r","i","c">>,
     <<"M","e","t","a","l"," ","S","h","e","e","t">>,
     <<"A","n","v","i","l">>}

\* checkCategory (part_001 216)
checkCategory(name, list) ==
    \E keyword \in list : Includes(ToLowerCase(name), ToLowerCase(keyword))

\* what the chunk loop keeps: chunkResults.filter(r => r) (part_001 405)
KeptP1(raw) == ~raw.isNull

\* mutant: the project test does not exclude the quest items
ClassifyP1NoPrecedence(raw) ==
    LET name == getText(raw.data.name)
        safeId == StrOr(raw.fileNameId, StrOr(raw.data.id, S_unknown))
        isQuest == checkCategory(name, OVERRIDES_QUEST)
        isProject == checkCategory(name, OVERRIDES_PROJECT)
        isUpgrade == ~isQuest /\ ~isProject /\ checkCategory(name, OVERRIDES_UPGRADE)
        isSafe == ~isQuest /\ ~isProject /\ ~isUpgrade
    IN  [id |-> safeId, name |-> name,
         rarity |-> StrOr(raw.data.rarity, S_Common),
         weight |-> NumberOr(raw.data.weight, 0),
         sell_value |-> NumberOr(raw.data.sell_value, 0),
         isQuestItem |-> isQuest, isProjectItem |-> isProject,
         isUpgradeItem |-> isUpgrade, isSafeToRecycle |-> isSafe,
         usedInCrafting |-> <<>>, usedInUpgrades |-> <<>>]

\* the map of "Process & Link" (part_001 410-440); type, description,
\* max_stack_size and imgUrl are left out of the record
ClassifyP1(raw) ==
    LET name == getText(raw.data.name)
        safeId == StrOr(raw.fileNameId, StrOr(raw.data.id, S_unknown))
        isQuest == checkCategory(name, OVERRIDES_QUEST)
        isProject == ~isQuest /\ checkCategory(name, OVERRIDES_PROJECT)
        isUpgrade == ~isQuest /\ ~isProject /\ checkCategory(name, OVERRIDES_UPGRADE)
        isSafe == ~isQuest /\ ~isProject /\ ~isUpgrade
    IN  [id |-> safeId, name |-> name,
         rarity |-> StrOr(raw.data.rarity, S_Common),
         weight |-> NumberOr(raw.data.weight, 0),
         sell_value |-> NumberOr(raw.data.sell_value, 0),
         isQuestItem |-> isQuest, isProjectItem |-> isProject,
         isUpgradeItem |-> isUpgrade, isSafeToRecycle |-> isSafe,
         usedInCrafting |-> <<>>, usedInUpgrades |-> <<>>]

\* rawItems.map(...) (part_001 410-440)
ProcessP1(raws) == [i \in 1..Len(raws) |-> ClassifyP1(raws[i])]

(***************************************************************************)
(* Revision v2: the grid revision (App.tsx 485-519)                        *)
(***************************************************************************)
S_TraderPrefix == <<"T","r","a","d","e","r",":"," ">>  \* "Trader: "

\* the filter of "Process Data" (App.tsx 486)
KeptV2(raw) == ~raw.isNull /\ (raw.data.id # <<>> \/ Truthy(raw.data.name))

\* p.cost && Array.isArray(p.cost) && p.cost.some(c => String(c.item) === id)
ArrayRefers(kind, entries, id) ==
    kind = "array" /\ \E i \in DOMAIN entries : entries[i].item = id

\* the map of "Process Data" (App.tsx 487-519); type, description,
\* max_stack_size and imgUrl are left out of the record
ClassifyV2(raw, projects, trades) ==
    LET safeId == StrOr(raw.data.id, S_unknown)
        yields == SelectSeq(projects, LAMBDA p : ArrayRefers("array", p.yield, safeId))
        usedIn == SelectSeq(projects, LAMBDA p : ArrayRefers(p.costKind, p.cost, safeId))
        sold == SelectSeq(trades, LAMBDA t : ArrayRefers("array", t.offer, safeId))
    IN  [id |-> safeId, name |-> getText(raw.data.name),
         rarity |-> StrOr(raw.data.rarity, S_Common),
         weight |-> NumberOr(raw.data.weight, 0),
         sell_value |-> NumberOr(raw.data.sell_value, 0),
         craftingRecipe |-> IF yields = <<>> THEN <<>> ELSE <<yields[1].cost>>,
         usedInCrafting |-> [i \in 1..Len(usedIn) |-> getText(usedIn[i].name)],
         obtainedFromTrades |-> [i \in 1..Len(sold) |-> S_TraderPrefix \o sold[i].trader]]

\* rawItems.filter(...).map(...) (App.tsx 485-519)
ProcessV2(raws, projects, trades) ==
    LET kept == SelectSeq(raws, KeptV2)
    IN  [i \in 1..Len(kept) |-> ClassifyV2(kept[i], projects, trades)]

(***************************************************************************)
(* Revision p2: the API revision (part_002 123-172, 312-354)               *)
(***************************************************************************)
\* toSnakeCase (part_002 12)
toSnakeCase(id) == [i \in 1..Len(ToLowerCase(id)) |->
                        IF ToLowerCase(id)[i] = "-" THEN "_" ELSE ToLowerCase(id)[i]]

\* the item identifiers a project's cost names: c.item of an array, the keys
\* of an object (part_002 328-342)
CostItems(proj) ==
    IF proj.costKind = "none" THEN {}
    ELSE {proj.cost[i].item : i \in DOMAIN proj.cost}

\* mutant: the projects loop pushes the name without the includes test
RECURSIVE UsedInProjectsNoIncludesTest(_, _)
UsedInProjectsNoIncludesTest(projects, id) ==
    IF projects = <<>> THEN <<>>
    ELSE LET front == UsedInProjectsNoIncludesTest(SubSeq(projects, 1, Len(projects) - 1), id)
             p == projects[Len(projects)]
         IN  IF id \in CostItems(p) THEN Append(front, p.name) ELSE front

\* graph.usedInProjects.get(id) || [] after the projects loop (part_002 326-344):
\* the names of the projects whose cost names id, in dataset order, a name
\* entered once (a name that is an object is never equal to another one)
RECURSIVE UsedInProjects(_, _)
UsedInProjects(projects, id) ==
    IF projects = <<>> THEN <<>>
    ELSE LET front == UsedInProjects(SubSeq(projects, 1, Len(projects) - 1), id)
             p == projects[Len(projects)]
         IN  IF id \in CostItems(p) /\ (p.name.t = "obj" \/ p.name \notin Range(front))
             THEN Append(front, p.name)
             ELSE front

\* graph.soldBy.get(id) || null after the trades loop (part_002 318-324):
\* the trader of the last trade of the item; <<>> stands for null
SoldBy(trades, id) ==
    LET hits == {i \in DOMAIN trades : /\ trades[i].itemId = id
                                       /\ trades[i].itemId # <<>>
                                       /\ trades[i].trader # <<>>}
    IN  IF hits = {} THEN <<>>
        ELSE trades[CHOOSE i \in hits : \A j \in hits : j <= i].trader

\* normalizeItem (part_002 123-149); description, type, max_stack_size and
\* imageUrl are left out of the record
normalizeItem(raw, projects, trades) ==
    [id |-> raw.id, name |-> raw.name.s,
     rarity |-> StrOr(raw.rarity, S_Standard),
     weight |-> safeNum(raw.weight),
     sell_value |-> safeNum(raw.sell_value),
     soldBy |-> SoldBy(trades, raw.id),
     computedUsedInProjects |-> UsedInProjects(projects, raw.id),
     craftedAt |-> <<>>,
     computedIngredients |-> <<>>,
     computedRecyclesInto |-> <<>>,
     computedRelatedQuests |-> <<>>,
     isQuestItem |-> FALSE, isProjectItem |-> FALSE,
     isUpgradeItem |-> FALSE, isSafeToRecycle |-> TRUE]

\* the strings that stand between double quotes in JSON.stringify(q): the
\* keys of the record and of its entries, and every string value
JsonStrings(q) ==
    {S_id, S_name, S_trader, S_objectives, S_cost}
        \cup (IF q.objectives = <<>> THEN {} ELSE {S_item})
        \cup (IF q.cost = <<>> THEN {} ELSE {S_item, S_count})
        \cup (IF q.name.t = "obj" THEN {S_en} ELSE {})
        \cup {q.id, q.name.s, q.trader}
        \cup {q.objectives[i].item : i \in DOMAIN q.objectives}
        \cup {q.cost[i].item : i \in DOMAIN q.cost}

\* JSON.stringify(q).includes(`"${id}"`) (part_002 351), for an id without
\* quote or backslash
QuestMentions(q, id) == id \in JsonStrings(q)

\* name.toLowerCase().includes('upgrade') || ...includes('module') (part_002 353)
IsUpgradeName(name) ==
    Includes(ToLowerCase(name.s), S_upgrade) \/ Includes(ToLowerCase(name.s), S_module)

\* the .some(...) of part_002 353 calls toLowerCase on a name that is no
\* string (an object or undefined) and throws, unless an earlier name matched
UpgradeTestThrows(names) ==
    \E i \in DOMAIN names :
        /\ names[i].t # "str"
        /\ \A j \in 1..(i - 1) : ~IsUpgradeName(names[j])

\* one round of "Link Quests & Flags" (part_002 350-354)
LinkP2(item, quests) ==
    LET related == SelectSeq(quests, LAMBDA q : QuestMentions(q, item.id))
    IN  [item EXCEPT
            !.computedRelatedQuests = related,
            !.isQuestItem = related # <<>>,
            !.isUpgradeItem = \E i \in DOMAIN item.computedUsedInProjects :
                                  IsUpgradeName(item.computedUsedInProjects[i])]

\* init, steps 2 and 3 (part_002 346-354)
ProcessP2(raws, quests, projects, trades) ==
    [i \in 1..Len(raws) |-> LinkP2(normalizeItem(raws[i], projects, trades), quests)]

\* step 3 throws at the first item whose project names make the test throw
ProcessP2Throws(raws, projects) ==
    \E i \in DOMAIN raws : UpgradeTestThrows(UsedInProjects(projects, raws[i].id))

\* Object.entries(obj).map(([id, count]) => ({id: toSnakeCase(id), count}))
\* (part_002 153-156, 159-162)
Ingredients(entries) ==
    [i \in 1..Len(entries) |-> [id |-> toSnakeCase(entries[i].item), count |-> entries[i].count]]

\* a detail document items/<id>.json: recipe, recyclesInto || recycling, craftBench
GhDetail(recipe, recycle, craftBench) ==
    [recipe |-> recipe, recycle |-> recycle, craftBench |-> craftBench]

\* normalizeDetailItem (part_002 151-172)
normalizeDetailItem(base, ghData) ==
    LET ingredients == Ingredients(ghData.recipe)
        recycling == Ingredients(ghData.recycle)
    IN  [base EXCEPT
            !.craftedAt = StrOr(ghData.craftBench, base.soldBy),
            !.computedIngredients = ingredients,
            !.computedRecyclesInto = recycling,
            !.isProjectItem = ingredients # <<>> \/ base.isProjectItem,
            !.isSafeToRecycle = /\ recycling # <<>>
                                /\ ~base.isQuestItem
                                /\ ~base.isUpgradeItem
                                /\ ~base.isProjectItem]

(***************************************************************************)
(* The remote data the behaviours draw from                                *)
(***************************************************************************)
File_wire == RawItem(S_wire_json, S_wire, Str(S_Wire), S_Common, Num(1), Num(2))

File_anvil == RawItem(S_AnvilI_json, S_anvil_1, Obj(S_AnvilI), S_Rare, Num(2), Num(5))

File_fuse == RawItem(S_fuse_json, <<>>, Str(S_Fuse), <<>>, NaN, NaN)

File_lens == RawItem(S_lens_json, S_lens, Str(S_CameraLens), S_Epic, Num(0), Num(5))

\* a file named ".json" without a name field
File_bare == RawItem(S_json, S_scrap, NoText, <<>>, Num(1), Num(1))

\* names with keywords of two lists of part_001: QUEST and PROJECT, PROJECT
\* and UPGRADE
File_thumper == RawItem(S_thumper_json, S_thumper, Str(S_ThumperBattery), S_Rare, Num(3), Num(4))

File_cable == RawItem(S_cable_json, S_cable, Str(S_WireCable), S_Common, Num(1), Num(1))

FilePool == {File_wire, File_anvil, File_fuse, File_lens, File_bare, File_thumper, File_cable}

Api_wire == RawItem(<<>>, S_wire, Str(S_Wire), S_Common, Num(1), Num(2))

Api_fuse == RawItem(<<>>, S_fuse, Str(S_Fuse), <<>>, NaN, Num(5))

Api_scrap == RawItem(<<>>, S_scrap, Str(S_Scrap), S_Rare, Num(2), Num(5))

Api_lens == RawItem(<<>>, S_lens, Str(S_CameraLens), S_Epic, Num(1), NaN)

ApiItemPool == {Api_wire, Api_fuse, Api_scrap, Api_lens}

Quest_wire == Quest(S_q1, Str(S_Adrenaline), S_Celeste, <<Ref(S_wire, 1)>>, <<>>)

Quest_anvil == Quest(S_q2, Obj(S_Caravan), S_Lance, <<>>, <<Ref(S_ANVIL_1, 1)>>)

\* a quest that names no item, and whose id is the id of an item
Quest_fuse == Quest(S_fuse, Str(S_Scrap), S_Lance, <<>>, <<>>)

QuestPool == {Quest_wire, Quest_anvil, Quest_fuse}

Proj_bench == Project(Str(S_BenchUpgrade), "array", <<Ref(S_wire, 2)>>, <<>>)

Proj_caravan ==
    Project(Obj(S_Caravan), "array", <<Ref(S_AnvilI, 1), Ref(S_wire, 1)>>, <<Ref(S_lens, 1)>>)

Proj_module == Project(Str(S_ClusterModule), "dict", <<Ref(S_fuse, 3)>>, <<>>)

Proj_nocost == Project(Str(S_Caravan), "none", <<>>, <<Ref(S_wire, 1)>>)

ProjectPool == {Proj_bench, Proj_caravan, Proj_module, Proj_nocost}

Trade_wire == Trade(S_wire, S_Celeste, <<Ref(S_wire, 1)>>)

Trade_fuse == Trade(S_fuse, S_Lance, <<Ref(S_fuse, 2)>>)

\* bounds of the data sets
MaxItems == 2

MaxQuests == 1

MaxProjects == 1

\* bounds of a behaviour
MaxLoads == 2

MaxTicks == 3

(***************************************************************************)
(* Program constants                                                       *)
(***************************************************************************)
\* CACHE_DURATION = 1000 * 60 * 60 (App.tsx 33, 405)
CACHE_DURATION == 3600000

\* chunkSize (App.tsx 177, 467; part_001 394)
chunkSize == 50

\* while (page < 50) (part_002 184)
PageLimit == 50

\* ?limit=100 (part_002 186)
PageSize == 100

\* the clock advances in steps of half the cache duration
TickStep == CACHE_DURATION \div 2

CachedRevs == {"v14", "v2"}

FileRevs == {"v14", "v2", "p1"}

Revs == {"v14", "v2", "p1", "p2"}

(***************************************************************************)
(* The load routine: fetchData (App.tsx 118-232 and 424-537, part_001      *)
(* 377-446) and init with apiService.fetchAll (part_002 177-224, 308-360). *)
(* An action is the code that runs from one await to the next: it takes    *)
(* the awaited responses and issues the next requests.                     *)
(***************************************************************************)
\* what a fetch can come to: a 2xx response with the data, a response with
\* another status, a rejected promise, a body that is no JSON
Outcomes == IF faults THEN {"ok", "notok", "reject", "badjson"} ELSE {"ok"}

\* the listing fetch also tells status 403 from the other statuses (App.tsx 449)
ListOutcomes == IF faults THEN Outcomes \cup {"forbidden"} ELSE Outcomes

\* the API fetch also tells status 500 from the other statuses (part_002 188)
ApiOutcomes == IF faults THEN Outcomes \cup {"error500"} ELSE Outcomes

\* an item file fetch: the body of an error response is no JSON
FileOutcomes == IF faults THEN {"ok", "reject", "badjson"} ELSE {"ok"}

Min(a, b) == IF a < b THEN a ELSE b

\* mutant: an entry exactly one hour old still counts as fresh
CacheFreshInclusive(c, t) == t - c.timestamp <= CACHE_DURATION

\* Date.now() - timestamp < CACHE_DURATION (App.tsx 126, 433)
CacheFresh(c, t) == t - c.timestamp < CACHE_DURATION

\* err.message || "Unknown error occurred" (App.tsx 450, 452, 530)
ErrorMessage(outcome) ==
    CASE outcome = "forbidden" -> "GitHub Limit Hit. Wait 30m or use a VPN."
      [] outcome = "notok" -> "Failed to load items list."
      [] outcome = "reject" -> "Failed to fetch"
      [] OTHER -> "Unexpected token < in JSON"

\* mutant: the catch block forgets setError
CatchSilent(msg) ==
    /\ pc' = "failed"
    /\ loading' = FALSE
    /\ error' = error
    /\ UNCHANGED <<items, cache, loadedAt>>

\* catch and finally (App.tsx 229, 528-533; part_001 443): only revision v2
\* has an error state
Catch(msg) ==
    /\ pc' = "failed"
    /\ loading' = FALSE
    /\ error' = IF rev = "v2" THEN msg ELSE error
    /\ UNCHANGED <<items, cache, loadedAt>>

\* the processing step of the file revisions
Processed(raw, pData, qData, tData) ==
    CASE rev = "v14" -> ProcessV14(raw, qData, pData)
      [] rev = "v2" -> ProcessV2(raw, pData, tData)
      [] OTHER -> ProcessP1(raw)

\* mutant: the processed items are shown but not written to the cache
CompleteNoCacheWrite(raw, pData, qData, tData) ==
    /\ items' = Processed(raw, pData, qData, tData)
    /\ cache' = cache
    /\ loading' = FALSE
    /\ error' = error
    /\ loadedAt' = IF listFailed THEN loadedAt ELSE now
    /\ pc' = "done"

\* process, write the cache, setItems; finally (App.tsx 192-229, 485-533;
\* part_001 410-443, which writes no cache)
Complete(raw, pData, qData, tData) ==
    /\ items' = Processed(raw, pData, qData, tData)
    /\ cache' = IF rev \in CachedRevs
                THEN CacheEntry(now, Processed(raw, pData, qData, tData))
                ELSE cache
    /\ loading' = FALSE
    /\ error' = error
    /\ loadedAt' = IF listFailed THEN loadedAt ELSE now
    /\ pc' = "done"

\* useEffect runs the load routine up to its first await: setLoading(true), the
\* cache check (App.tsx 120-134, 426-447), localStorage.removeItem (part_001
\* 379-383), or nothing but the four requests of fetchAll (part_002 309-310,
\* 216-221: page 1 of items and of quests, trades.json, projects.json)
Mount ==
    /\ pc = "start"
    /\ loads' = loads + 1
    /\ IF rev \in CachedRevs /\ cache.kind \in {"entry", "nodata"} /\ CacheFresh(cache, now)
       THEN /\ items' = cache.data
            /\ loading' = FALSE
            /\ pc' = "cached"
            /\ fetches' = 0
            /\ cache' = cache
       ELSE /\ items' = items
            /\ loading' = TRUE
            /\ pc' = IF rev = "p2" THEN "api_items" ELSE "list"
            /\ fetches' = IF rev = "p2" THEN 4 ELSE 1
            /\ cache' = IF (rev \in CachedRevs /\ cache.kind = "corrupt") \/ rev = "p1"
                        THEN NoCache
                        ELSE cache
    /\ UNCHANGED <<error, rawProjects, listFailed, loadedAt, itemsList, projectsData,
                   questsData, tradesData, rawItems, chunkStart, page, auxOutcomes,
                   fileOutcomes, requested>>
    /\ UNCHANGED <<envVars, srvVars, now, viewVars, keyVars, imgVars>>

\* the listing of the items directory arrives (App.tsx 134-141, 447-460;
\* part_001 383-387); then the auxiliary data sets are requested
ListResponse ==
    /\ pc = "list"
    /\ \E o \in ListOutcomes :
         LET \* part_001 tests neither ok nor the status: the error body is parsed
             throws == IF rev = "p1" THEN o \in {"reject", "badjson"} ELSE o # "ok"
         IN  /\ listFailed' = (o # "ok")
             /\ IF throws
                THEN /\ Catch(ErrorMessage(o))
                     /\ UNCHANGED <<fetches, itemsList>>
                ELSE /\ itemsList' = IF o = "ok" THEN Array(srvItems) ELSE NotArray
                     /\ fetches' = fetches + (IF rev = "p1" THEN 1 ELSE 2)
                     /\ pc' = "aux"
                     /\ UNCHANGED <<items, loading, error, cache, loadedAt>>
    /\ UNCHANGED <<loads, rawProjects, projectsData, questsData, tradesData, rawItems,
                   chunkStart, page, auxOutcomes, fileOutcomes, requested>>
    /\ UNCHANGED <<envVars, srvVars, now, viewVars, keyVars, imgVars>>

\* mutant: a chunk takes the entry behind its last one along
ChunkOverlapping(list, i) == SubSeq(list, i + 1, Min(i + chunkSize + 1, Len(list)))

\* the files that chunk.map calls fetch for (fetch(file.download_url))
Names(chunk) == [i \in 1..Len(chunk) |-> chunk[i].fileName]

\* the chunk of the listing that starts after i entries
Chunk(list, i) == SubSeq(list, i + 1, Min(i + chunkSize, Len(list)))

\* what the chunk loop pushes for one chunk (App.tsx 181-188, 475-479;
\* part_001 397-405)
ChunkResults(chunk, outs) ==
    LET got == [i \in 1..Len(chunk) |->
                  IF outs[i] # "ok" THEN NullRaw
                  ELSE IF rev = "v2" THEN FetchedPlain(chunk[i])
                  ELSE Fetched(chunk[i])]
    IN  IF rev = "p1" THEN SelectSeq(got, KeptP1) ELSE got

\* projects.json and quests.json / trades.json arrive (App.tsx 138-173,
\* 457-463; part_001 387-388); the usage index is built; the first chunk of
\* item files is requested, or the empty list is processed
AuxResponse ==
    /\ pc = "aux"
    /\ \E oP \in Outcomes, oX \in (IF rev = "p1" THEN {"ok"} ELSE Outcomes) :
         LET pData == IF oP = "ok" THEN srvProjects ELSE <<>>
             qData == IF rev = "v14" /\ oX = "ok" THEN srvQuests ELSE <<>>
             tData == IF rev = "v2" /\ oX = "ok" THEN srvTrades ELSE <<>>
             \* fetchJson of part_001 catches everything; App.tsx does not
             bad == IF "reject" \in {oP, oX} THEN "reject" ELSE "badjson"
             throws == /\ rev # "p1"
                       /\ \/ {oP, oX} \cap {"reject", "badjson"} # {}
                          \/ rev = "v14" /\ IndexThrowsV14(pData)
             first == IF itemsList.isArray THEN Chunk(itemsList.list, 0) ELSE <<>>
         IN  /\ auxOutcomes' = IF rev = "p1" THEN <<oP>> ELSE <<oP, oX>>
             /\ IF throws
                THEN /\ Catch(ErrorMessage(bad))
                     /\ UNCHANGED <<fetches, projectsData, questsData, tradesData,
                                    rawProjects, rawItems, chunkStart, requested>>
                ELSE /\ projectsData' = pData
                     /\ questsData' = qData
                     /\ tradesData' = tData
                     /\ rawProjects' = IF rev = "p1" THEN pData ELSE rawProjects
                     /\ rawItems' = <<>>
                     /\ chunkStart' = 0
                     /\ IF first # <<>>
                        THEN /\ fetches' = fetches + Len(first)
                             /\ requested' = Names(first)
                             /\ pc' = "chunks"
                             /\ UNCHANGED <<items, loading, error, cache, loadedAt>>
                        ELSE /\ fetches' = fetches
                             /\ requested' = requested
                             /\ Complete(<<>>, pData, qData, tData)
    /\ UNCHANGED <<loads, listFailed, itemsList, page, fileOutcomes>>
    /\ UNCHANGED <<envVars, srvVars, now, viewVars, keyVars, imgVars>>

\* the item files of one chunk have settled (App.tsx 179-190, 471-481;
\* part_001 395-406): the next chunk is requested, or the items are processed
ChunkResponse ==
    /\ pc = "chunks"
    /\ LET chunk == Chunk(itemsList.list, chunkStart)
           next == Chunk(itemsList.list, chunkStart + chunkSize)
       IN  \E outs \in [1..Len(chunk) -> FileOutcomes] :
             \* only App.tsx 476 leaves the rejection of a fetch uncaught
             /\ fileOutcomes' = fileOutcomes \o [i \in 1..Len(chunk) |-> outs[i]]
             /\ IF rev = "v2" /\ \E i \in DOMAIN outs : outs[i] = "reject"
                THEN /\ Catch(ErrorMessage("reject"))
                     /\ UNCHANGED <<fetches, rawItems, chunkStart, requested>>
                ELSE /\ rawItems' = rawItems \o ChunkResults(chunk, outs)
                     /\ chunkStart' = chunkStart + chunkSize
                     /\ IF chunkStart + chunkSize < Len(itemsList.list)
                        THEN /\ fetches' = fetches + Len(next)
                             /\ requested' = requested \o Names(next)
                             /\ pc' = "chunks"
                             /\ UNCHANGED <<items, loading, error, cache, loadedAt>>
                        ELSE /\ fetches' = fetches
                             /\ requested' = requested
                             /\ Complete(rawItems \o ChunkResults(chunk, outs),
                                         projectsData, questsData, tradesData)
    /\ UNCHANGED <<loads, listFailed, itemsList, projectsData, questsData, tradesData,
                   rawProjects, page, auxOutcomes>>
    /\ UNCHANGED <<envVars, srvVars, now, viewVars, keyVars, imgVars>>

\* page number p of a list of the API (?page=p&limit=100): the API puts limit
\* records on a page, or fewer when its own cap is lower
PageOf(list, p) ==
    LET size == Min(PageSize, srvPageCap)
    IN  SubSeq(list, (p - 1) * size + 1, Min(p * size, Len(list)))

\* mutant: the loop runs while page <= 50
MorePagesInclusive(data, p) == data # <<>> /\ p + 1 <= PageLimit

\* the loop of fetchApiList goes on to the next page: the page had records
\* (part_002 194) and page++ leaves page < 50 (part_002 184, 196)
MorePages(data, p) == data # <<>> /\ p + 1 < PageLimit

\* one page of fetchApiList arrives (part_002 181-205).  The items and the
\* quests are fetched by two concurrent calls that share no state; the model
\* runs the call for the items first and the call for the quests then (the
\* first request of the quests was issued by Mount).
ApiPageResponse ==
    /\ pc \in {"api_items", "api_quests"}
    /\ \E o \in ApiOutcomes :
         LET list == IF pc = "api_items" THEN srvItems ELSE srvQuests
             data == IF o = "ok" THEN PageOf(list, page) ELSE <<>>
             more == MorePages(data, page)
         IN  /\ rawItems' = IF pc = "api_items" THEN rawItems \o data ELSE rawItems
             /\ questsData' = IF pc = "api_quests" THEN questsData \o data ELSE questsData
             /\ listFailed' = (listFailed \/ (pc = "api_items" /\ o # "ok"))
             /\ page' = IF more THEN page + 1 ELSE 1
             /\ fetches' = IF more THEN fetches + 1 ELSE fetches
             /\ pc' = IF more THEN pc
                      ELSE IF pc = "api_items" THEN "api_quests" ELSE "static"
    /\ UNCHANGED <<loads, loadedAt, itemsList, projectsData, tradesData, chunkStart,
                   auxOutcomes, fileOutcomes, requested>>
    /\ UNCHANGED <<dataVars, cache>>
    /\ UNCHANGED <<envVars, srvVars, now, viewVars, keyVars, imgVars>>

\* trades.json and projects.json arrive (fetchStatic, part_002 208-214), and
\* init goes on (part_002 312-357).  Step 3 may throw; init has no try, so
\* setItems and setLoading(false) are then never reached.
StaticsResponse ==
    /\ pc = "static"
    /\ \E oT \in Outcomes, oP \in Outcomes :
         LET tData == IF oT = "ok" THEN srvTrades ELSE <<>>
             pData == IF oP = "ok" THEN srvProjects ELSE <<>>
         IN  /\ tradesData' = tData
             /\ projectsData' = pData
             /\ auxOutcomes' = <<oP, oT>>
             /\ IF ProcessP2Throws(rawItems, pData)
                THEN /\ pc' = "thrown"
                     /\ UNCHANGED <<items, loading, loadedAt>>
                ELSE /\ pc' = "done"
                     /\ items' = ProcessP2(rawItems, questsData, pData, tData)
                     /\ loading' = FALSE
                     /\ loadedAt' = IF listFailed THEN loadedAt ELSE now
    /\ UNCHANGED <<loads, fetches, listFailed, itemsList, questsData, rawItems,
                   chunkStart, page, fileOutcomes, requested>>
    /\ UNCHANGED <<error, rawProjects, cache>>
    /\ UNCHANGED <<envVars, srvVars, now, viewVars, keyVars, imgVars>>

\* the load routine has returned or thrown
LoadEnded == pc \in {"done", "cached", "failed", "thrown"}

\* a fresh page: React state and the load routine start over, localStorage stays
FreshPage ==
    /\ pc' = "start"
    /\ fetches' = 0
    /\ listFailed' = FALSE
    /\ itemsList' = NotArray
    /\ projectsData' = <<>>
    /\ questsData' = <<>>
    /\ tradesData' = <<>>
    /\ rawItems' = <<>>
    /\ chunkStart' = 0
    /\ page' = 1
    /\ auxOutcomes' = <<>>
    /\ fileOutcomes' = <<>>
    /\ requested' = <<>>
    /\ items' = <<>>
    /\ loading' = TRUE
    /\ error' = NoError
    /\ rawProjects' = <<>>
    /\ view' = "DASHBOARD"
    /\ activeCategory' = Null
    /\ selectedItem' = NullItem
    /\ detailItem' = NullItem
    /\ isDetailLoading' = FALSE
    /\ search' = <<>>
    /\ sortBy' = "Name"
    /\ raidMode' = FALSE
    /\ pending' = <<>>
    /\ lastCall' = <<>>
    /\ lastView' = <<"DASHBOARD", Null>>

\* the user loads the page again
Reload ==
    /\ LoadEnded
    /\ loads < MaxLoads
    /\ FreshPage
    /\ UNCHANGED <<loads, loadedAt, cache, envVars, srvVars, now, keyVars, imgVars>>

\* the Retry button of the error screen (App.tsx 616-627), shown when loading
\* is false and error is set: localStorage.removeItem and window.location.reload
Retry ==
    /\ rev = "v2"
    /\ ~loading
    /\ error # NoError
    /\ loads < MaxLoads
    /\ FreshPage
    /\ cache' = NoCache
    /\ UNCHANGED <<loads, loadedAt, envVars, srvVars, now, keyVars, imgVars>>

\* time passes
Tick ==
    /\ now + TickStep <= MaxTicks * TickStep
    /\ now' = now + TickStep
    /\ UNCHANGED <<envVars, srvVars, cache, loadVars, dataVars, viewVars, keyVars, imgVars>>

(***************************************************************************)
(* Spec: one revision loads, with failing fetches, a clock and reloads,    *)
(* against one data set per revision.                                      *)
(***************************************************************************)
Init ==
    /\ rev \in Revs
    /\ faults = TRUE
    /\ srvItems = IF rev = "p2" THEN <<Api_wire, Api_fuse>> ELSE <<File_wire, File_anvil>>
    /\ srvProjects = <<Proj_bench>>
    /\ srvQuests = IF rev \in {"v14", "p2"} THEN <<Quest_wire>> ELSE <<>>
    /\ srvTrades = IF rev \in {"v2", "p2"} THEN <<Trade_wire>> ELSE <<>>
    /\ srvPageCap = PageSize
    /\ now = 0
    /\ cache \in {NoCache, CorruptCache}
    /\ LoadInit
    /\ ReactInit
    /\ KeysIdle
    /\ ImageIdle

NextLoad ==
    \/ Mount
    \/ ListResponse
    \/ AuxResponse
    \/ ChunkResponse
    \/ ApiPageResponse
    \/ StaticsResponse

Next ==
    \/ NextLoad
    \/ Reload
    \/ Retry
    \/ Tick

Spec == Init /\ [][Next]_vars

(***************************************************************************)
(* SpecLoadFair: one load, fetches that fail or succeed, a projects.json   *)
(* whose names are strings or objects; every fetch that was issued settles *)
(* and the code that waits for it runs on.                                 *)
(***************************************************************************)
InitLoadFair ==
    /\ rev \in Revs
    /\ faults = TRUE
    /\ srvItems = IF rev = "p2" THEN <<Api_wire, Api_fuse>> ELSE <<File_wire, File_anvil>>
    /\ srvProjects \in {<<Proj_bench>>, <<Proj_caravan>>}
    /\ srvQuests = IF rev \in {"v14", "p2"} THEN <<Quest_wire>> ELSE <<>>
    /\ srvTrades = IF rev \in {"v2", "p2"} THEN <<Trade_wire>> ELSE <<>>
    /\ srvPageCap = PageSize
    /\ now = 0
    /\ cache \in {NoCache, CorruptCache}
    /\ LoadInit
    /\ ReactInit
    /\ KeysIdle
    /\ ImageIdle

\* the files of a chunk settle: the step of ChunkResponse as far as pc and
\* chunkStart go.  While pc = "chunks" no other action is enabled and
\* ChunkResponse is, and each of its steps changes pc or chunkStart: weak
\* fairness of this step is weak fairness of ChunkResponse.
ChunkSettles ==
    /\ pc = "chunks"
    /\ pc' \in {"chunks", "done", "failed"}
    /\ chunkStart' \in {chunkStart, chunkStart + chunkSize}

\* the effect runs after the first render, and every fetch that was issued
\* settles: the promise resolves or rejects, and the code that awaits it runs
FetchesSettle ==
    /\ WF_vars(Mount)
    /\ WF_vars(ListResponse)
    /\ WF_vars(AuxResponse)
    /\ WF_<<pc, chunkStart>>(ChunkSettles)
    /\ WF_vars(ApiPageResponse)
    /\ WF_vars(StaticsResponse)

SpecLoadFair == InitLoadFair /\ [][NextLoad]_vars /\ FetchesSettle

(***************************************************************************)
(* SpecClassify: one load without failing fetches, for every data set      *)
(* within the bounds.                                                      *)
(***************************************************************************)
InitClassify ==
    /\ rev \in Revs
    /\ faults = FALSE
    /\ srvItems \in InjSeqs(IF rev = "p2" THEN ApiItemPool ELSE FilePool, MaxItems)
    /\ srvProjects \in InjSeqs(ProjectPool, MaxProjects)
    /\ srvQuests \in (IF rev \in {"v14", "p2"} THEN InjSeqs(QuestPool, MaxQuests) ELSE {<<>>})
    /\ srvTrades \in (IF rev \in {"v2", "p2"} THEN {<<>>, <<Trade_fuse, Trade_wire>>} ELSE {<<>>})
    /\ srvPageCap = PageSize
    /\ now = 0
    /\ cache = NoCache
    /\ LoadInit
    /\ ReactInit
    /\ KeysIdle
    /\ ImageIdle

SpecClassify == InitClassify /\ [][NextLoad]_vars

(***************************************************************************)
(* part_001: the detail data computed from selectedItem (part_001 449-464) *)
(***************************************************************************)
\* norm (part_001 221-224)
norm(str) == IF str = <<>> THEN <<>> ELSE StripNonAlnum(ToLowerCase(str))

\* p.cost && p.cost.some(c => norm(c.item) === targetId)
NormRefers(entries, targetId) == \E i \in DOMAIN entries : norm(entries[i].item) = targetId

\* p.name && (p.name.toLowerCase().includes('upgrade') || ...includes('station'))
IsUpgradeOrStation(p) ==
    /\ Truthy(p.name)
    /\ \/ Includes(ToLowerCase(p.name.s), S_upgrade)
       \/ Includes(ToLowerCase(p.name.s), S_station)

\* the memo throws where it calls .some on a cost that is no array or
\* .toLowerCase on a name that is no string
itemDetailsThrows(item, projects) ==
    \E i \in DOMAIN projects :
        \/ projects[i].costKind = "dict"
        \/ /\ NormRefers(projects[i].cost, norm(item.id))
           /\ projects[i].name.t = "obj"

\* itemDetails for a selected item (part_001 449-464)
itemDetails(item, projects) ==
    LET targetId == norm(item.id)
        crafted == SelectSeq(projects, LAMBDA p : NormRefers(p.yield, targetId))
        usedIn == SelectSeq(projects, LAMBDA p : NormRefers(p.cost, targetId))
    IN  [craftedBy |-> IF crafted = <<>> THEN <<>> ELSE <<crafted[1]>>,
         usedInCrafting |-> SelectSeq(usedIn, LAMBDA p : ~IsUpgradeOrStation(p)),
         usedInUpgrades |-> SelectSeq(usedIn, IsUpgradeOrStation)]

(***************************************************************************)
(* Claims about the classification (SpecClassify)                          *)
(***************************************************************************)
\* the load of revision r has set the items it fetched
Loaded(r) == rev = r /\ pc = "done"

\* the identifiers named by the objectives of the loaded quests
ObjectiveItems ==
    UNION {{questsData[q].objectives[o].item : o \in DOMAIN questsData[q].objectives}
             : q \in DOMAIN questsData}

\* C1: in the fuzzy-key classifier (v14) every loaded item whose identifier is
\* the item field of an objective of a quest has isQuestItem = TRUE and
\* isSafeToRecycle = FALSE.
C1_QuestItemFlagged ==
    Loaded("v14") =>
        \A i \in DOMAIN items :
            items[i].id \in ObjectiveItems
                => items[i].isQuestItem /\ ~items[i].isSafeToRecycle

C1_Witness ==
    /\ Loaded("v14")
    /\ \E i \in DOMAIN items :
          /\ items[i].id \in ObjectiveItems
          /\ items[i].isQuestItem
          /\ ~items[i].isUpgradeItem

\* C2 (as claimed): in the API revision (p2) every item linked to a quest has
\* isQuestItem = TRUE and isSafeToRecycle = FALSE.
C2_QuestItemNotRecyclable ==
    Loaded("p2") =>
        \A i \in DOMAIN items :
            items[i].computedRelatedQuests # <<>>
                => items[i].isQuestItem /\ ~items[i].isSafeToRecycle

\* every identifier a loaded quest or project refers to, as written
ReferencedIds ==
    UNION {{questsData[q].objectives[o].item : o \in DOMAIN questsData[q].objectives}
             \cup {questsData[q].cost[c].item : c \in DOMAIN questsData[q].cost}
             : q \in DOMAIN questsData}
      \cup UNION {{projectsData[p].cost[c].item : c \in DOMAIN projectsData[p].cost}
                    : p \in DOMAIN projectsData}

\* C3 (as claimed): in the fuzzy-key classifier every loaded item whose own
\* identifier string occurs in no quest objective, quest cost or project cost
\* has isSafeToRecycle = TRUE.
C3_UnreferencedIsSafe_Original ==
    Loaded("v14") =>
        \A i \in DOMAIN items :
            items[i].id \notin ReferencedIds => items[i].isSafeToRecycle

\* C3 (amended): in the fuzzy-key classifier every loaded item none of whose
\* fuzzy keys is a fuzzy key of an identifier named by a quest objective, a
\* quest cost or a project cost has isSafeToRecycle = TRUE.
C3_UnmatchedIsSafe ==
    Loaded("v14") =>
        \A i \in DOMAIN items :
            (\A r \in ReferencedIds \ {<<>>} :
                generateFuzzyKeys(items[i].id) \cap generateFuzzyKeys(r) = {})
                => items[i].isSafeToRecycle

C3_Witness ==
    /\ Loaded("v14")
    /\ ReferencedIds # {}
    /\ \E i \in DOMAIN items :
          /\ \A r \in ReferencedIds \ {<<>>} :
                generateFuzzyKeys(items[i].id) \cap generateFuzzyKeys(r) = {}
          /\ items[i].isSafeToRecycle
    /\ \E i \in DOMAIN items : ~items[i].isSafeToRecycle

\* the mock data of the end-to-end test: one item {id: "wire", name: "Wire"},
\* one project {name: "Bench Upgrade", cost: [{item: "wire", count: 2}]}, no quest
MockWorld ==
    /\ srvItems \in {<<File_wire>>, <<Api_wire>>}
    /\ srvProjects = <<Proj_bench>>
    /\ srvQuests = <<>>

\* the project "Bench Upgrade" is in the list together with the count 2
ListsBenchUpgradeTwice(usedIn) ==
    \E i \in DOMAIN usedIn :
        \/ usedIn[i] = [name |-> S_BenchUpgrade, count |-> 2]
        \/ usedIn[i] = Proj_bench

\* the reverse "used in" list the revision keeps for an item
UsedInList(item) ==
    CASE rev = "v14" -> item.usedInProjects
      [] rev = "p1" -> itemDetails(item, rawProjects).usedInUpgrades
      [] rev = "p2" -> item.computedUsedInProjects
      [] OTHER -> item.usedInCrafting

\* C4 (as claimed): on the mock data each of the load pipelines v14, p1 and p2
\* produces the item with isUpgradeItem = TRUE and with the project
\* "Bench Upgrade" and the count 2 in its reverse "used in" list.
C4_EndToEndMock ==
    (MockWorld /\ pc = "done" /\ rev \in {"v14", "p1", "p2"}) =>
        /\ Len(items) = 1
        /\ items[1].isUpgradeItem
        /\ ListsBenchUpgradeTwice(UsedInList(items[1]))

\* C4, what each pipeline does produce on the mock data
C4_Observed ==
    (MockWorld /\ pc = "done" /\ rev \in {"v14", "p1", "p2"}) =>
        /\ Len(items) = 1
        /\ rev = "v14" => items[1].isUpgradeItem /\ items[1].usedInProjects = <<>>
        /\ rev = "p1" => /\ ~items[1].isUpgradeItem /\ items[1].isProjectItem
                         /\ itemDetails(items[1], rawProjects).usedInUpgrades = <<Proj_bench>>
        /\ rev = "p2" => /\ items[1].isUpgradeItem
                         /\ items[1].computedUsedInProjects = <<Str(S_BenchUpgrade)>>


(***************************************************************************)
(* Claims about the cache and about failures of the load (Spec)            *)
(***************************************************************************)
\* the step in which the load routine of a revision in revs starts
LoadStarts(revs) == rev \in revs /\ pc = "start" /\ pc' # "start"

\* C6: in both load routines of App.tsx, a load that finds a cache entry less
\* than CACHE_DURATION old issues no fetch and sets items to the cached data,
\* a load that finds an entry that old or older fetches the item list again,
\* and a load less than CACHE_DURATION after a load that set the fetched
\* items issues no fetch; a load served from the cache never fetches
C6_CacheReuse ==
    /\ [][LoadStarts(CachedRevs) =>
            /\ (cache.kind = "entry" /\ now - cache.timestamp < CACHE_DURATION)
                   => /\ fetches' = 0
                      /\ pc' = "cached"
                      /\ items' = cache.data
                      /\ ~loading'
            /\ (cache.kind = "entry" /\ now - cache.timestamp >= CACHE_DURATION)
                   => /\ fetches' = 1
                      /\ pc' = "list"
            /\ (loadedAt >= 0 /\ now - loadedAt < CACHE_DURATION)
                   => fetches' = 0]_vars
    /\ [](pc = "cached" => fetches = 0)

\* a second load, after time has passed, was served from the cache that the
\* first load wrote
C6_Witness ==
    /\ rev \in CachedRevs
    /\ pc = "cached"
    /\ loads = 2
    /\ fetches = 0
    /\ loadedAt >= 0
    /\ now > loadedAt
    /\ items # <<>>
    /\ items = cache.data

\* C7: in part_001 and part_002, a load less than the expiry after a load that
\* set the fetched items issues no fetch, and a later load fetches again
C7_SecondLoadWithinExpiryNoFetch ==
    [][(LoadStarts({"p1", "p2"}) /\ loadedAt >= 0) =>
            IF now - loadedAt < CACHE_DURATION THEN fetches' = 0 ELSE fetches' > 0]_vars

\* what part_001 and part_002 do: every load fetches, and nothing is stored
C7_Observed ==
    /\ [][LoadStarts({"p1", "p2"}) => fetches' > 0]_vars
    /\ [](rev \in {"p1", "p2"} => cache.kind # "entry")

\* C10: when the fetch of the primary item list fails, the load of App.tsx
\* (both revisions) and of part_002 ends with an error message set, which the
\* error screen with its Retry button shows, and not in an empty dashboard
C10_ListFailureShowsError ==
    (rev \in {"v14", "v2", "p2"} /\ listFailed /\ LoadEnded) =>
        (error # NoError /\ ~loading)

\* what the revisions do: only the second revision of App.tsx sets the message
C10_Observed ==
    (listFailed /\ LoadEnded) =>
        /\ ~loading
        /\ (error # NoError) = (rev = "v2")
        /\ rev = "v14" => items = <<>>


(***************************************************************************)
(* The category lists (App.tsx 235-245, part_001 467-483, part_002 388-405) *)
(***************************************************************************)
CategoryTypes == {"QUEST", "UPGRADE", "PROJECT", "RECYCLE"}

\* the options of the sort menu (part_001 203, part_002 95)
SortOptions ==
    {"Name", "Value (High)", "Value (Low)", "Rarity (High)", "Rarity (Low)", "Efficiency"}

\* RARITY_WEIGHT[r.toLowerCase()] || 0 (part_001 218, 472; part_002 98, 390)
getRarityWeight(r, rarity) ==
    LET lower == ToLowerCase(rarity)
    IN  CASE lower = S_common -> 1
          [] lower = S_standard -> IF r = "p2" THEN 1 ELSE 0
          [] lower = S_uncommon -> 2
          [] lower = S_rare -> 3
          [] lower = S_epic -> 4
          [] lower = S_legendary -> 5
          [] OTHER -> 0

\* the collation order of the characters that the names are made of:
\* punctuation, digits, letters
CharOrder ==
    <<" ", "_", "-", ".", ":">> \o DigitChars \o LowerChars

\* the rank of a character in the collation, case ignored; 0 for any other
CharRank(c) ==
    LET at == {i \in DOMAIN CharOrder : CharOrder[i] = LowerChar(c)}
    IN  IF at = {} THEN 0 ELSE CHOOSE i \in at : TRUE

\* the rank with the case as the last criterion: lower case first
CaseRank(c) == 2 * CharRank(c) + (IF c \in Range(UpperChars) THEN 1 ELSE 0)

\* a.name.localeCompare(b.name) (part_001 475, part_002 397) as the default
\* collation compares names of these characters: by the letters, case
\* ignored, then lower case before upper case
localeCompare(a, b) ==
    LET n == Min(Len(a), Len(b))
        diff == {i \in 1..n : CharRank(a[i]) # CharRank(b[i])}
        caseDiff == {i \in 1..n : CaseRank(a[i]) # CaseRank(b[i])}
        first(S) == CHOOSE i \in S : \A j \in S : i <= j
    IN  IF diff # {} THEN CharRank(a[first(diff)]) - CharRank(b[first(diff)])
        ELSE IF Len(a) # Len(b) THEN Len(a) - Len(b)
        ELSE IF caseDiff # {}
             THEN CaseRank(a[first(caseDiff)]) - CaseRank(b[first(caseDiff)])
        ELSE 0

\* x || 1 on numbers
OrOne(x) == IF x = 0 THEN 1 ELSE x

\* mutant: "Value (High)" compares as "Value (Low)" does
CompareValueAscending(r, opt, a, b) ==
    CASE opt \in {"Value (High)", "Value (Low)"} -> a.sell_value - b.sell_value
      [] opt = "Rarity (High)" ->
            getRarityWeight(r, b.rarity) - getRarityWeight(r, a.rarity)
      [] opt = "Rarity (Low)" ->
            getRarityWeight(r, a.rarity) - getRarityWeight(r, b.rarity)
      [] opt = "Efficiency" ->
            (b.sell_value * OrOne(a.weight) - a.sell_value * OrOne(b.weight))
                * (OrOne(a.weight) * OrOne(b.weight))
      [] OTHER -> localeCompare(a.name, b.name)

\* the comparator of filtered.sort (part_001 469-476, part_002 391-398); the
\* quotients of "Efficiency" are compared by cross multiplication, which has
\* the sign of their difference
Compare(r, opt, a, b) ==
    CASE opt = "Value (High)" -> b.sell_value - a.sell_value
      [] opt = "Value (Low)" -> a.sell_value - b.sell_value
      [] opt = "Rarity (High)" ->
            getRarityWeight(r, b.rarity) - getRarityWeight(r, a.rarity)
      [] opt = "Rarity (Low)" ->
            getRarityWeight(r, a.rarity) - getRarityWeight(r, b.rarity)
      [] opt = "Efficiency" ->
            (b.sell_value * OrOne(a.weight) - a.sell_value * OrOne(b.weight))
                * (OrOne(a.weight) * OrOne(b.weight))
      [] OTHER -> localeCompare(a.name, b.name)

\* Array.prototype.sort with that comparator: a stable sort, computed by
\* insertion of each element behind the last one that does not come after it
RECURSIVE Sort(_, _, _)
Sort(r, opt, list) ==
    IF list = <<>> THEN <<>>
    ELSE LET front == Sort(r, opt, SubSeq(list, 1, Len(list) - 1))
             x == list[Len(list)]
             notAfter == {i \in DOMAIN front : Compare(r, opt, front[i], x) <= 0}
             p == IF notAfter = {} THEN 0 ELSE CHOOSE i \in notAfter : \A j \in notAfter : j <= i
         IN  SubSeq(front, 1, p) \o <<x>> \o SubSeq(front, p + 1, Len(front))

\* items.filter(i => i.name.toLowerCase().includes(search.toLowerCase()))
Filtered(list, s) ==
    SelectSeq(list, LAMBDA i : Includes(ToLowerCase(i.name), ToLowerCase(s)))

\* the categories memo; App.tsx does not sort
categories(r, list, s, opt) ==
    LET filtered == IF r \in {"p1", "p2"} THEN Sort(r, opt, Filtered(list, s))
                    ELSE Filtered(list, s)
    IN  [QUEST |-> SelectSeq(filtered, LAMBDA i : i.isQuestItem),
         UPGRADE |-> SelectSeq(filtered, LAMBDA i : i.isUpgradeItem),
         PROJECT |-> SelectSeq(filtered, LAMBDA i : i.isProjectItem),
         RECYCLE |-> SelectSeq(filtered, LAMBDA i : i.isSafeToRecycle)]

\* the filteredItems memo of the grid revision (App.tsx 539-542)
filteredItems(list, s) == Filtered(list, s)


(***************************************************************************)
(* The views (App.tsx 247-249, 306-379, 606-750; part_001 485-490,         *)
(* 564-670; part_002 363-385, 431-565)                                     *)
(***************************************************************************)
\* the page shows the application: not the loading screen, not the error
\* screen of the grid revision (App.tsx 306, 606-627; part_001 564; part_002 431)
Interactive == ~loading /\ error = NoError

\* part_001: the itemDetails memo throws while the page renders, and React
\* takes the page down
Crashed ==
    /\ rev = "p1"
    /\ selectedItem # NullItem
    /\ itemDetailsThrows(selectedItem[1], rawProjects)

\* const activeItem = detailItem || selectedItem (part_002 433)
activeItem == IF detailItem # NullItem THEN detailItem ELSE selectedItem

\* what <main> renders (App.tsx 324, 349, 369, 637; part_001 587, 650;
\* part_002 455, 543, 558)
Frame ==
    CASE rev = "v2" -> IF selectedItem # NullItem THEN "DETAIL" ELSE "GRID"
      [] rev = "v14" ->
            IF view = "DETAIL" /\ selectedItem # NullItem THEN "DETAIL"
            ELSE IF view = "CATEGORY" /\ activeCategory # Null THEN "CATEGORY"
            ELSE IF view = "DASHBOARD" THEN "DASHBOARD"
            ELSE "NOTHING"
      [] rev = "p1" ->
            IF view = "DETAIL" /\ selectedItem # NullItem THEN "DETAIL"
            ELSE IF view = "CATEGORY" /\ activeCategory # Null THEN "CATEGORY"
            ELSE "DASHBOARD"
      [] OTHER ->
            IF view = "DETAIL" /\ activeItem # NullItem THEN "DETAIL"
            ELSE IF view = "CATEGORY" /\ activeCategory # Null THEN "CATEGORY"
            ELSE "DASHBOARD"

\* id.toLowerCase().replace(/_/g, ' ') (part_002 254)
UnderscoresToSpaces(id) ==
    [i \in 1..Len(id) |-> IF ToLowerCase(id)[i] = "_" THEN " " ELSE ToLowerCase(id)[i]]

\* the item of a MiniCard of part_002 (part_002 250-255): <<>> when none
MiniCardItemP2(id, allItems) ==
    LET hits == {i \in DOMAIN allItems :
                    \/ allItems[i].id = id
                    \/ toSnakeCase(allItems[i].id) = toSnakeCase(id)
                    \/ ToLowerCase(allItems[i].name) = UnderscoresToSpaces(id)}
    IN  IF hits = {} THEN <<>> ELSE <<allItems[CHOOSE i \in hits : \A j \in hits : i <= j]>>

\* the item of a MiniCard of part_001 (part_001 262-266): <<>> when none
MiniCardItemP1(id, allItems) ==
    LET hits == {i \in DOMAIN allItems : norm(allItems[i].id) = norm(id)}
    IN  IF hits = {} THEN <<>> ELSE <<allItems[CHOOSE i \in hits : \A j \in hits : i <= j]>>

\* the identifiers of the MiniCards of the detail frame: part_001 shows the
\* cost of craftedBy and the first yield of each usedInCrafting (part_001
\* 615-633), part_002 the ingredients and the recycling products (part_002
\* 492-509)
MiniCardIds ==
    IF rev = "p1"
    THEN LET d == itemDetails(selectedItem[1], rawProjects)
         IN  {c.item : c \in UNION {Range(p.cost) : p \in Range(d.craftedBy)}}
                 \cup {IF p.yield # <<>> THEN p.yield[1].item ELSE <<>> :
                          p \in Range(d.usedInCrafting)}
    ELSE IF rev = "p2"
    THEN {e.id : e \in Range(activeItem[1].computedIngredients)
                        \cup Range(activeItem[1].computedRecyclesInto)}
    ELSE {}

\* data.slice(0, 10) of a SectionRow (App.tsx 288, part_001 546, part_002 417)
Slice10(list) == SubSeq(list, 1, Min(10, Len(list)))

\* the items whose card the page shows, each with onClick = goDetail(item)
Cards ==
    LET cats == categories(rev, items, search, sortBy)
    IN  CASE Frame = "GRID" -> Range(filteredItems(items, search))
          [] Frame = "DASHBOARD" -> UNION {Range(Slice10(cats[c])) : c \in CategoryTypes}
          [] Frame = "CATEGORY" -> Range(cats[activeCategory])
          [] Frame = "DETAIL" ->
                UNION {Range(IF rev = "p1" THEN MiniCardItemP1(id, items)
                             ELSE MiniCardItemP2(id, items)) : id \in MiniCardIds}
          [] OTHER -> {}

\* the detail documents of the data repository (items/<id>.json)
Detail_empty == GhDetail(<<>>, <<>>, <<>>)

Detail_recipe == GhDetail(<<Ref(S_Wire, 2)>>, <<>>, S_bench)

Detail_recycle == GhDetail(<<>>, <<Ref(S_scrap, 1)>>, <<>>)

\* an item that is crafted and that is recycled
Detail_both == GhDetail(<<Ref(S_Wire, 2)>>, <<Ref(S_scrap, 1)>>, S_bench)

\* what fetchGithubDetail returns (part_002 226-237): null, drawn as <<>>,
\* when the fetch fails or the status is not OK, the document otherwise
DetailOutcomes ==
    {<<>>, <<Detail_empty>>, <<Detail_recipe>>, <<Detail_recycle>>, <<Detail_both>>}

\* the strings the user types into the search box
SearchInputs == {<<>>, S_wi, <<"E">>}

\* detail fetches in flight at a time
MaxPending == 2


\* the view that a step leaves is remembered unless it is the detail view
Remember ==
    lastView' = IF view' # "DETAIL" THEN <<view', activeCategory'>> ELSE lastView

\* the user can act on the page
CanAct == Interactive /\ ~Crashed

\* setSearch(e.target.value)
SetSearch ==
    /\ CanAct
    /\ \E s \in SearchInputs \ {search} : search' = s
    /\ UNCHANGED <<view, activeCategory, selectedItem, detailItem, isDetailLoading,
                   sortBy, raidMode, pending, lastCall, lastView>>
    /\ UNCHANGED <<envVars, srvVars, now, cache, loadVars, dataVars, keyVars, imgVars>>

\* mutant: the categories memo sorts the items list itself
SetSortByInPlace ==
    /\ CanAct
    /\ rev \in {"p1", "p2"}
    /\ \E opt \in SortOptions \ {sortBy} :
         /\ sortBy' = opt
         /\ items' = Sort(rev, opt, items)
    /\ UNCHANGED <<view, activeCategory, selectedItem, detailItem, isDetailLoading,
                   search, raidMode, pending, lastCall, lastView>>
    /\ UNCHANGED <<loading, error, rawProjects>>
    /\ UNCHANGED <<envVars, srvVars, now, cache, loadVars, keyVars, imgVars>>

\* onChange={setSortBy} of the sort menu (part_001 582, part_002 450)
SetSortBy ==
    /\ CanAct
    /\ rev \in {"p1", "p2"}
    /\ \E opt \in SortOptions \ {sortBy} : sortBy' = opt
    /\ UNCHANGED <<view, activeCategory, selectedItem, detailItem, isDetailLoading,
                   search, raidMode, pending, lastCall, lastView>>
    /\ UNCHANGED <<envVars, srvVars, now, cache, loadVars, dataVars, keyVars, imgVars>>

\* setRaidMode(!raidMode) (App.tsx 315, part_001 570)
ToggleRaidMode ==
    /\ CanAct
    /\ rev \in {"v14", "p1"}
    /\ raidMode' = ~raidMode
    /\ UNCHANGED <<view, activeCategory, selectedItem, detailItem, isDetailLoading,
                   search, sortBy, pending, lastCall, lastView>>
    /\ UNCHANGED <<envVars, srvVars, now, cache, loadVars, dataVars, keyVars, imgVars>>

\* goCategory(cat) with a category: the button of a SectionRow, which is
\* rendered for a category that is not empty, and in part_001 and part_002
\* the pills of the header (App.tsx 248, 285; part_001 486-490, 543, 577-580;
\* part_002 381-385, 414, 445-448)
GoCategory ==
    /\ CanAct
    /\ rev # "v2"
    /\ \E cat \in CategoryTypes :
         /\ rev = "v14" =>
                /\ Frame = "DASHBOARD"
                /\ categories(rev, items, search, sortBy)[cat] # <<>>
         /\ activeCategory' = cat
         /\ view' = "CATEGORY"
    /\ UNCHANGED <<selectedItem, detailItem, isDetailLoading, search, sortBy, raidMode,
                   pending, lastCall>>
    /\ UNCHANGED <<envVars, srvVars, now, cache, loadVars, dataVars, keyVars, imgVars>>
    /\ Remember

\* mutant: the way to the dashboard leaves activeCategory alone
GoHomeKeepsCategory ==
    /\ CanAct
    /\ rev # "v2"
    /\ view' = "DASHBOARD"
    /\ selectedItem' = IF rev = "v14" THEN NullItem ELSE selectedItem
    /\ UNCHANGED <<activeCategory, detailItem, isDetailLoading, search, sortBy, raidMode,
                   pending, lastCall>>
    /\ UNCHANGED <<envVars, srvVars, now, cache, loadVars, dataVars, keyVars, imgVars>>
    /\ Remember

\* goHome of App.tsx (249, 311, 351); goCategory(null) of part_001 (486-490,
\* 570, 576, 652) and part_002 (381-385, 439, 444, 545), which leaves
\* selectedItem alone
GoHome ==
    /\ CanAct
    /\ rev # "v2"
    /\ view' = "DASHBOARD"
    /\ activeCategory' = Null
    /\ selectedItem' = IF rev = "v14" THEN NullItem ELSE selectedItem
    /\ UNCHANGED <<detailItem, isDetailLoading, search, sortBy, raidMode, pending,
                   lastCall>>
    /\ UNCHANGED <<envVars, srvVars, now, cache, loadVars, dataVars, keyVars, imgVars>>
    /\ Remember

\* a click on a card.  goDetail of App.tsx (247) and part_001 (485);
\* setSelectedItem(item) of the grid revision (App.tsx 720); goDetail of
\* part_002 up to its await (part_002 363-370)
GoDetail ==
    /\ CanAct
    /\ rev = "p2" => Len(pending) < MaxPending
    /\ \E item \in Cards :
         /\ selectedItem' = Some(item)
         /\ view' = IF rev = "v2" THEN view ELSE "DETAIL"
         /\ detailItem' = IF rev = "p2" THEN NullItem ELSE detailItem
         /\ isDetailLoading' = IF rev = "p2" THEN TRUE ELSE isDetailLoading
         /\ pending' = IF rev = "p2" THEN Append(pending, item) ELSE pending
    /\ lastCall' = <<>>
    /\ UNCHANGED <<activeCategory, search, sortBy, raidMode>>
    /\ UNCHANGED <<envVars, srvVars, now, cache, loadVars, dataVars, keyVars, imgVars>>
    /\ Remember

\* mutant: a call whose fetch failed leaves detailItem null
EnrichedOrNull(item, gh) ==
    IF gh # <<>> THEN Some(normalizeDetailItem(item, gh[1])) ELSE NullItem

\* what goDetail passes to setDetailItem (part_002 372-377)
Enriched(item, gh) ==
    IF gh # <<>> THEN Some(normalizeDetailItem(item, gh[1])) ELSE Some(item)

\* mutant: the call that resumes shows the detail view of its item again
DetailResponseOpensDetail ==
    /\ rev = "p2"
    /\ \E k \in DOMAIN pending, gh \in DetailOutcomes :
         /\ detailItem' = Enriched(pending[k], gh)
         /\ isDetailLoading' = FALSE
         /\ pending' = SubSeq(pending, 1, k - 1) \o SubSeq(pending, k + 1, Len(pending))
         /\ lastCall' = <<[item |-> pending[k], ghDetail |-> gh]>>
         /\ selectedItem' = Some(pending[k])
         /\ view' = "DETAIL"
    /\ UNCHANGED <<activeCategory, search, sortBy, raidMode, lastView>>
    /\ UNCHANGED <<envVars, srvVars, now, cache, loadVars, dataVars, keyVars, imgVars>>

\* fetchGithubDetail of one of the calls of goDetail returns, and the call
\* runs to its end (part_002 371-378)
DetailResponse ==
    /\ rev = "p2"
    /\ \E k \in DOMAIN pending, gh \in DetailOutcomes :
         /\ detailItem' = Enriched(pending[k], gh)
         /\ isDetailLoading' = FALSE
         /\ pending' = SubSeq(pending, 1, k - 1) \o SubSeq(pending, k + 1, Len(pending))
         /\ lastCall' = <<[item |-> pending[k], ghDetail |-> gh]>>
    /\ UNCHANGED <<view, activeCategory, selectedItem, search, sortBy, raidMode, lastView>>
    /\ UNCHANGED <<envVars, srvVars, now, cache, loadVars, dataVars, keyVars, imgVars>>

\* mutant: BACK always leads to the dashboard
BackToDashboard ==
    /\ CanAct
    /\ Frame = "DETAIL"
    /\ view' = IF rev = "v2" THEN view ELSE "DASHBOARD"
    /\ selectedItem' = IF rev = "v2" THEN NullItem ELSE selectedItem
    /\ UNCHANGED <<activeCategory, detailItem, isDetailLoading, search, sortBy, raidMode,
                   pending, lastCall>>
    /\ UNCHANGED <<envVars, srvVars, now, cache, loadVars, dataVars, keyVars, imgVars>>
    /\ Remember

\* the BACK button of the detail frame (App.tsx 326, part_001 589, part_002
\* 457); BACK TO GRID of the grid revision (App.tsx 639)
Back ==
    /\ CanAct
    /\ Frame = "DETAIL"
    /\ view' = IF rev = "v2" THEN view
               ELSE IF activeCategory # Null THEN "CATEGORY" ELSE "DASHBOARD"
    /\ selectedItem' = IF rev = "v2" THEN NullItem ELSE selectedItem
    /\ UNCHANGED <<activeCategory, detailItem, isDetailLoading, search, sortBy, raidMode,
                   pending, lastCall>>
    /\ UNCHANGED <<envVars, srvVars, now, cache, loadVars, dataVars, keyVars, imgVars>>
    /\ Remember

(***************************************************************************)
(* SpecView: one load without failing fetches, then the user navigates.    *)
(***************************************************************************)
\* a project that yields an item: a crafting recipe of part_001
Proj_craft == Project(Str(S_CameraLens), "array", <<Ref(S_wire, 1)>>, <<Ref(S_lens, 1)>>)

InitView ==
    /\ rev \in Revs
    /\ faults = FALSE
    /\ srvItems = IF rev = "p2" THEN <<Api_wire, Api_scrap, Api_lens>>
                  ELSE <<File_wire, File_anvil, File_lens>>
    /\ srvProjects = <<Proj_bench, Proj_craft>>
    /\ srvQuests = IF rev \in {"v14", "p2"} THEN <<Quest_wire>> ELSE <<>>
    /\ srvTrades = IF rev \in {"v2", "p2"} THEN <<Trade_wire>> ELSE <<>>
    /\ srvPageCap = PageSize
    /\ now = 0
    /\ cache = NoCache
    /\ LoadInit
    /\ ReactInit
    /\ KeysIdle
    /\ ImageIdle

NextView ==
    \/ NextLoad
    \/ SetSearch
    \/ SetSortBy
    \/ ToggleRaidMode
    \/ GoCategory
    \/ GoHome
    \/ GoDetail
    \/ DetailResponse
    \/ Back

SpecView == InitView /\ [][NextView]_vars

(***************************************************************************)
(* SpecPages: init of part_002 against an API that puts one record on a    *)
(* page, or a hundred, with failing fetches.                               *)
(***************************************************************************)
\* bound of the item list of the API
MaxPagedItems == 50

\* the identifier of record number i: its three digits
NumberedId(i) ==
    <<DigitChars[((i \div 100) % 10) + 1], DigitChars[((i \div 10) % 10) + 1],
      DigitChars[(i % 10) + 1]>>

\* n records of the items API with the identifiers 001, 002, ...
Numbered(n) ==
    [i \in 1..n |-> RawItem(<<>>, NumberedId(i), Str(NumberedId(i)), S_Common, Num(1), Num(i))]

InitPages ==
    /\ rev = "p2"
    /\ faults = TRUE
    /\ srvItems \in {Numbered(n) : n \in {0, 2, MaxPagedItems}}
    /\ srvProjects = <<Proj_bench>>
    /\ srvQuests = <<Quest_wire, Quest_anvil>>
    /\ srvTrades = <<Trade_wire>>
    /\ srvPageCap \in {1, PageSize}
    /\ now = 0
    /\ cache = NoCache
    /\ LoadInit
    /\ ReactInit
    /\ KeysIdle
    /\ ImageIdle

NextPages ==
    \/ Mount
    \/ ApiPageResponse
    \/ StaticsResponse

SpecPages == InitPages /\ [][NextPages]_vars

(***************************************************************************)
(* SpecChunks: one load of a revision that downloads item files, without   *)
(* failing fetches, for listings of up to three chunks.                    *)
(***************************************************************************)
\* bound of the listing of item files
MaxChunkItems == 101

\* n item files with the names 001.json, 002.json, ...
NumberedFiles(n) ==
    [i \in 1..n |-> RawItem(NumberedId(i) \o S_json, NumberedId(i), Str(NumberedId(i)),
                           S_Common, Num(1), Num(i))]

InitChunks ==
    /\ rev \in FileRevs
    /\ faults = FALSE
    /\ srvItems \in {NumberedFiles(n) : n \in 0..MaxChunkItems}
    /\ srvProjects = <<Proj_bench>>
    /\ srvQuests = IF rev = "v14" THEN <<Quest_wire>> ELSE <<>>
    /\ srvTrades = IF rev = "v2" THEN <<Trade_wire>> ELSE <<>>
    /\ srvPageCap = PageSize
    /\ now = 0
    /\ cache = NoCache
    /\ LoadInit
    /\ ReactInit
    /\ KeysIdle
    /\ ImageIdle

NextChunks ==
    \/ Mount
    \/ ListResponse
    \/ AuxResponse
    \/ ChunkResponse

SpecChunks == InitChunks /\ [][NextChunks]_vars

(***************************************************************************)
(* SpecCache: one load of a revision of App.tsx that finds no entry, or an *)
(* entry that is no {timestamp, data} object, in local storage.            *)
(***************************************************************************)
InitCache ==
    /\ rev \in CachedRevs
    /\ faults = TRUE
    /\ srvItems = <<File_wire, File_anvil>>
    /\ srvProjects = <<Proj_bench>>
    /\ srvQuests = IF rev = "v14" THEN <<Quest_wire>> ELSE <<>>
    /\ srvTrades = IF rev = "v2" THEN <<Trade_wire>> ELSE <<>>
    /\ srvPageCap = PageSize
    /\ now = 0
    /\ cache \in {NoCache, CorruptCache, EmptyObjectCache, NoDataCache(0)}
    /\ LoadInit
    /\ ReactInit
    /\ KeysIdle
    /\ ImageIdle

SpecCache == InitCache /\ [][NextChunks]_vars

(***************************************************************************)
(* SpecImage: one ArcImage component of App.tsx (fuzzy key revision) or of *)
(* part_001, its img element, and the files of the image directory.        *)
(***************************************************************************)
\* changes of the item prop of the component
MaxIdChanges == 1

\* cap of the count of error events
MaxImgErrors == 4

BASE_URL ==
    <<"h","t","t","p","s",":","/","/","r","a","w",".","g","i","t","h","u","b","u","s","e","r","c","o","n","t","e","n","t",".","c","o","m","/","R","a","i","d","T","h","e","o","r","y","/","a","r","c","r","a","i","d","e","r","s","-","d","a","t","a","/","m","a","i","n","/","i","m","a","g","e","s","/","i","t","e","m","s">>

S_png == <<".","p","n","g">>

S_lowercase == <<"l","o","w","e","r","c","a","s","e">>

S_Anvil_I == <<"A","n","v","i","l","_","I">>

S_anvil_i == <<"a","n","v","i","l","_","i">>

\* `${BASE_URL}/${name}.png`
ImageUrl(name) == BASE_URL \o <<"/">> \o name \o S_png

\* s.replace(/ /g, '_')
ReplaceSpaces(s) == [i \in 1..Len(s) |-> IF s[i] = " " THEN "_" ELSE s[i]]

\* a space as it is serialized in the path of a URL
RECURSIVE EncodeSpaces(_)
EncodeSpaces(s) ==
    IF s = <<>> THEN <<>>
    ELSE (IF Head(s) = " " THEN <<"%", "2", "0">> ELSE <<Head(s)>>) \o EncodeSpaces(Tail(s))

\* what reading img.src gives for the attribute value url, one of the URLs
\* under BASE_URL: the URL as the parser serializes it (BASE_URL has no space)
SrcIdl(url) == BASE_URL \o EncodeSpaces(SubSeq(url, Len(BASE_URL) + 1, Len(url)))

\* the URLs that handleError of App.tsx and the state src go through
Candidates(id) ==
    {ImageUrl(id), ImageUrl(ReplaceSpaces(id)), ImageUrl(ReplaceSpaces(ToLowerCase(id)))}

ImgIds == {S_wire, S_AnvilI}

ImageFilePool == {ImageUrl(S_wire), ImageUrl(S_AnvilI), ImageUrl(S_Anvil_I), ImageUrl(S_anvil_i)}

\* mutant: the first error gives the item up
handleErrorSkipsFallback(state) ==
    IF state \in {"primary", "fallback"} THEN "error" ELSE state

\* handleError of part_001 (251-254)
handleError(state) ==
    CASE state = "primary" -> "fallback"
      [] state = "fallback" -> "error"
      [] OTHER -> state

\* the src of the img element that ArcImage of part_001 returns, <<>> for the
\* placeholder div (part_001 256-258)
RenderedUrl(state, id) ==
    CASE state = "error" -> <<>>
      [] state = "primary" -> ImageUrl(id)
      [] OTHER -> ImageUrl(ReplaceSpaces(id))

\* React commits a render whose img has the src url: the attribute is set,
\* and the image fetched, when the prop differs from that of the render
\* before; no img element is left when the component returns the div
Commit(url, prop) ==
    IF url = <<>>
    THEN /\ domSrc' = <<>>
         /\ imgLoading' = FALSE
    ELSE IF url # prop
         THEN /\ domSrc' = url
              /\ imgLoading' = TRUE
         ELSE /\ domSrc' = domSrc
              /\ imgLoading' = imgLoading

InitImage ==
    /\ rev \in {"v14", "p1"}
    /\ faults = FALSE
    /\ NoServer
    /\ now = 0
    /\ cache = NoCache
    /\ LoadInit
    /\ ReactInit
    /\ KeysIdle
    /\ imgFiles \in SUBSET ImageFilePool
    /\ imgId \in ImgIds
    /\ loadState = "primary"
    /\ src = IF rev = "v14" THEN ImageUrl(imgId) ELSE <<>>
    /\ domSrc = ImageUrl(imgId)
    /\ imgLoading = TRUE
    /\ opacity = "1"
    /\ effectPending = TRUE
    /\ imgRequested = {ImageUrl(imgId)}
    /\ imgErrors = 0
    /\ imgTurn = 0
    /\ imgChanges = 0

\* the parent renders the component with another item (the detail view of
\* another item): the render uses the state as it is, the effect runs later
ImgIdChange ==
    /\ imgChanges < MaxIdChanges
    /\ \E id \in ImgIds \ {imgId} :
         /\ imgId' = id
         /\ IF rev = "p1"
            THEN /\ Commit(RenderedUrl(loadState, id), RenderedUrl(loadState, imgId))
                 /\ imgRequested' = IF RenderedUrl(loadState, id) \in {<<>>, RenderedUrl(loadState, imgId)}
                                    THEN {}
                                    ELSE {RenderedUrl(loadState, id)}
            ELSE /\ UNCHANGED <<domSrc, imgLoading>>
                 /\ imgRequested' = {}
    /\ effectPending' = TRUE
    /\ imgErrors' = 0
    /\ imgChanges' = imgChanges + 1
    /\ UNCHANGED <<imgFiles, loadState, src, opacity, imgTurn>>
    /\ UNCHANGED <<envVars, srvVars, now, cache, loadVars, dataVars, viewVars, keyVars>>

\* useEffect(() => setSrc(...), [item.id]) of App.tsx (75-77);
\* useEffect(() => setLoadState('primary'), [safeId]) of part_001 (249)
ImgEffect ==
    /\ effectPending
    /\ effectPending' = FALSE
    /\ IF rev = "p1"
       THEN /\ loadState' = "primary"
            /\ src' = src
            /\ Commit(RenderedUrl("primary", imgId), RenderedUrl(loadState, imgId))
            /\ imgRequested' = IF loadState = "primary"
                               THEN imgRequested
                               ELSE imgRequested \cup {RenderedUrl("primary", imgId)}
       ELSE /\ src' = ImageUrl(imgId)
            /\ loadState' = loadState
            /\ Commit(ImageUrl(imgId), src)
            /\ imgRequested' = IF ImageUrl(imgId) = src
                               THEN imgRequested
                               ELSE imgRequested \cup {ImageUrl(imgId)}
    /\ UNCHANGED <<imgFiles, imgId, opacity, imgErrors, imgTurn, imgChanges>>
    /\ UNCHANGED <<envVars, srvVars, now, cache, loadVars, dataVars, viewVars, keyVars>>

\* the server has the file: the image is shown.  The fetch of an image ends
\* after the effect of the render that started it has run.
ImgLoaded ==
    /\ imgLoading
    /\ ~effectPending
    /\ domSrc \in imgFiles
    /\ imgLoading' = FALSE
    /\ UNCHANGED <<imgFiles, imgId, loadState, src, domSrc, opacity, effectPending,
                   imgRequested, imgErrors, imgTurn, imgChanges>>
    /\ UNCHANGED <<envVars, srvVars, now, cache, loadVars, dataVars, viewVars, keyVars>>

\* the server has no such file: the error event of the img element runs
\* handleError.  App.tsx (79-92) assigns img.src, and an assignment starts a
\* fetch whether or not the value is new; part_001 (251-254) sets the state
\* and the component renders again
ImgError ==
    /\ imgLoading
    /\ ~effectPending
    /\ domSrc \notin imgFiles
    /\ imgErrors' = Min(imgErrors + 1, MaxImgErrors)
    /\ imgTurn' = 1 - imgTurn
    /\ IF rev = "p1"
       THEN /\ loadState' = handleError(loadState)
            /\ IF RenderedUrl(handleError(loadState), imgId) \in {<<>>, domSrc}
               THEN /\ domSrc' = RenderedUrl(handleError(loadState), imgId)
                    /\ imgLoading' = FALSE
                    /\ imgRequested' = imgRequested
               ELSE /\ domSrc' = RenderedUrl(handleError(loadState), imgId)
                    /\ imgLoading' = TRUE
                    /\ imgRequested' = imgRequested \cup {RenderedUrl(handleError(loadState), imgId)}
            /\ opacity' = opacity
       ELSE /\ loadState' = loadState
            /\ IF Includes(SrcIdl(domSrc), imgId)
               THEN /\ domSrc' = ImageUrl(ReplaceSpaces(imgId))
                    /\ imgLoading' = TRUE
                    /\ imgRequested' = imgRequested \cup {ImageUrl(ReplaceSpaces(imgId))}
                    /\ opacity' = opacity
               ELSE IF ~Includes(SrcIdl(domSrc), S_lowercase)
                    THEN /\ domSrc' = ImageUrl(ReplaceSpaces(ToLowerCase(imgId)))
                         /\ imgLoading' = TRUE
                         /\ imgRequested' =
                                imgRequested \cup {ImageUrl(ReplaceSpaces(ToLowerCase(imgId)))}
                         /\ opacity' = opacity
                    ELSE /\ opacity' = "0.1"
                         /\ imgLoading' = FALSE
                         /\ UNCHANGED <<domSrc, imgRequested>>
    /\ UNCHANGED <<imgFiles, imgId, src, effectPending, imgChanges>>
    /\ UNCHANGED <<envVars, srvVars, now, cache, loadVars, dataVars, viewVars, keyVars>>

NextImage ==
    \/ ImgIdChange
    \/ ImgEffect
    \/ ImgLoaded
    \/ ImgError

SpecImage == InitImage /\ [][NextImage]_vars

\* the effect runs after the render, and the fetch of an image ends: with the
\* image or with an error event
ImageSettles ==
    /\ WF_vars(ImgEffect)
    /\ WF_vars(ImgLoaded)
    /\ WF_vars(ImgError)

SpecImageFair == InitImage /\ [][NextImage]_vars /\ ImageSettles

(***************************************************************************)
(* SpecNorm: norm of part_001 on pairs of identifiers, as MiniCard and     *)
(* itemDetails compare them (norm(i.id) === targetId).                     *)
(***************************************************************************)
S_Anvil_1 == <<"A","n","v","i","l","_","1">>

NormInputs == KeyInputs \cup {S_Anvil_1}

InitNorm ==
    /\ rev = "p1"
    /\ faults = FALSE
    /\ NoServer
    /\ now = 0
    /\ cache = NoCache
    /\ LoadInit
    /\ ReactInit
    /\ ImageIdle
    /\ rawA \in NormInputs
    /\ rawB \in NormInputs
    /\ keysA = {}
    /\ keysB = {}
    /\ keysDone = FALSE

\* targetId = norm(id) and norm(i.id) of MiniCard (part_001 263-264); the
\* same pair in itemDetails (part_001 451-457)
NormalizeIds ==
    /\ ~keysDone
    /\ keysA' = {norm(rawA)}
    /\ keysB' = {norm(rawB)}
    /\ keysDone' = TRUE
    /\ UNCHANGED <<rawA, rawB, envVars, srvVars, now, cache, loadVars, dataVars, viewVars,
                   imgVars>>

NextNorm == NormalizeIds

SpecNorm == InitNorm /\ [][NextNorm]_vars

(***************************************************************************)
(* SpecGraph: init of part_002 without failing fetches, for every list of  *)
(* projects within the bound: projects of one name, costs that are arrays  *)
(* and objects, names that are no strings.                                 *)
(***************************************************************************)
\* bound of the list of projects
MaxGraphProjects == 3

\* a second project of the name "Bench Upgrade"
Proj_bench2 == Project(Str(S_BenchUpgrade), "array", <<Ref(S_wire, 1), Ref(S_fuse, 1)>>, <<>>)

\* a project whose cost names an item twice
Proj_twice == Project(Str(S_Caravan), "array", <<Ref(S_fuse, 1), Ref(S_fuse, 2)>>, <<>>)

GraphProjectPool == {Proj_bench, Proj_bench2, Proj_twice, Proj_caravan, Proj_module, Proj_nocost}

InitGraph ==
    /\ rev = "p2"
    /\ faults = FALSE
    /\ srvItems = <<Api_wire, Api_fuse, Api_lens>>
    /\ srvProjects \in InjSeqs(GraphProjectPool, MaxGraphProjects)
    /\ srvQuests = <<Quest_wire>>
    /\ srvTrades = <<Trade_wire>>
    /\ srvPageCap = PageSize
    /\ now = 0
    /\ cache = NoCache
    /\ LoadInit
    /\ ReactInit
    /\ KeysIdle
    /\ ImageIdle

SpecGraph == InitGraph /\ [][NextPages]_vars

(***************************************************************************)
(* SpecSort: one load of part_001 or part_002 without failing fetches, for *)
(* every list of items within the bounds; then the user searches and sorts.*)
(***************************************************************************)
\* bound of the item lists that are sorted
MaxSortItems == 3

InitSort ==
    /\ rev \in {"p1", "p2"}
    /\ faults = FALSE
    /\ srvItems \in InjSeqs(IF rev = "p2" THEN ApiItemPool ELSE FilePool, MaxSortItems)
    /\ srvProjects = <<Proj_bench>>
    /\ srvQuests = IF rev = "p2" THEN <<Quest_wire>> ELSE <<>>
    /\ srvTrades = <<>>
    /\ srvPageCap = PageSize
    /\ now = 0
    /\ cache = NoCache
    /\ LoadInit
    /\ ReactInit
    /\ KeysIdle
    /\ ImageIdle

NextSort ==
    \/ NextLoad
    \/ SetSearch
    \/ SetSortBy

SpecSort == InitSort /\ [][NextSort]_vars


(***************************************************************************)
(* Claims about the category lists (SpecSort) and the records shown        *)
(* (SpecView)                                                              *)
(***************************************************************************)
\* each element of the list is worth at least as much as the next one
NonIncreasingValue(list) ==
    \A i \in 1..(Len(list) - 1) : list[i].sell_value >= list[i + 1].sell_value

\* C8: in part_001 and part_002, when sortBy is "Value (High)", each of the
\* four category lists is a non-increasing sequence of sell_value, whatever
\* the items and the search string
C8_ValueHighNonIncreasing ==
    (rev \in {"p1", "p2"} /\ sortBy = "Value (High)") =>
        \A c \in CategoryTypes :
            NonIncreasingValue(categories(rev, items, search, sortBy)[c])

\* sorted by "Value (High)" under a search: a category list of three items of
\* two values at least, which the loaded list holds in another order
C8_Witness ==
    /\ rev \in {"p1", "p2"}
    /\ Loaded(rev)
    /\ sortBy = "Value (High)"
    /\ search # <<>>
    /\ \E c \in CategoryTypes :
         LET list == categories(rev, items, search, sortBy)[c]
         IN  /\ Len(list) = 3
             /\ list[1].sell_value > list[3].sell_value
             /\ ~NonIncreasingValue(Filtered(items, search))

\* at least one of the four flags of the record is true
SomeFlag(item) ==
    item.isQuestItem \/ item.isProjectItem \/ item.isUpgradeItem \/ item.isSafeToRecycle

\* the record is flagged for no quest, no project and no upgrade
NoMatch(item) == ~item.isQuestItem /\ ~item.isProjectItem /\ ~item.isUpgradeItem

\* the record has a flag, and is safe to recycle when it matches nothing
Classified(item) == SomeFlag(item) /\ (NoMatch(item) => item.isSafeToRecycle)

\* C9: every record shown has at least one of the four flags true, and a
\* record that matches no quest, no project and no upgrade is safe to
\* recycle: the list records of App.tsx (fuzzy keys) and of part_001, and the
\* detail record that normalizeDetailItem produces in part_002
C9_EveryRecordClassified ==
    /\ rev \in {"v14", "p1"} => \A i \in DOMAIN items : Classified(items[i])
    /\ rev = "p2" => \A i \in DOMAIN detailItem : Classified(detailItem[i])

\* what the revisions do: the list records are classified; a detail record of
\* part_002 that matches nothing is safe only if the document names what the
\* item recycles into
C9_Observed ==
    /\ rev \in {"v14", "p1", "p2"} => \A i \in DOMAIN items : Classified(items[i])
    /\ rev = "p2" =>
          \A i \in DOMAIN detailItem :
              \/ Classified(detailItem[i])
              \/ /\ ~SomeFlag(detailItem[i])
                 /\ detailItem[i].computedRecyclesInto = <<>>


(***************************************************************************)
(* Claims about fetches that fail (Spec)                                   *)
(***************************************************************************)
\* the fetch was rejected, or the body of its response is no JSON
Failure(o) == o \in {"reject", "badjson"}

\* a fetch of an auxiliary data set of the current load failed
AuxFailed == \E i \in DOMAIN auxOutcomes : Failure(auxOutcomes[i])

\* the auxiliary data set as a load that tolerates its failure sees it
AuxData(i, data) == IF auxOutcomes[i] = "ok" THEN data ELSE <<>>

\* the items of a load that takes every failed auxiliary data set as empty
ItemsWithAuxData ==
    CASE rev = "v14" ->
            ProcessV14(rawItems, AuxData(2, srvQuests), AuxData(1, srvProjects))
      [] rev = "v2" ->
            ProcessV2(rawItems, AuxData(1, srvProjects), AuxData(2, srvTrades))
      [] OTHER ->
            ProcessP2(rawItems, questsData, AuxData(1, srvProjects), AuxData(2, srvTrades))

\* C11: in both load routines of App.tsx and in part_002, when the fetch of
\* an auxiliary data set is rejected or its body is no JSON, the load still
\* ends with the items set, classified as with that data set empty
C11_AuxFailureDegrades ==
    (rev \in {"v14", "v2", "p2"} /\ AuxFailed) =>
        /\ pc = "done"
        /\ items = ItemsWithAuxData

\* what the revisions do: part_002 takes the failed data set as empty; App.tsx
\* does so for a response that is not OK only, and ends the load without
\* items when a fetch is rejected or a body is no JSON
C11_Observed ==
    /\ (rev = "p2" /\ AuxFailed) => (pc = "done" /\ items = ItemsWithAuxData)
    /\ (rev \in {"v14", "v2"} /\ AuxFailed) => (pc = "failed" /\ items = <<>> /\ ~loading)
    /\ (rev \in {"v14", "v2"} /\ auxOutcomes # <<>> /\ ~AuxFailed /\ pc = "done") =>
            items = ItemsWithAuxData


\* every item file of the listing has been fetched, and some fetch failed
FilesSettledWithFailure ==
    /\ rev \in FileRevs
    /\ itemsList.isArray
    /\ fileOutcomes # <<>>
    /\ Len(fileOutcomes) = Len(itemsList.list)
    /\ \E i \in DOMAIN fileOutcomes : Failure(fileOutcomes[i])

\* the files of the listing whose fetch succeeded, in the order of the listing
FetchedOk == SelectSeq(ChunkResults(itemsList.list, fileOutcomes), LAMBDA r : ~r.isNull)

\* some fetch of an item file was rejected
FileRejected == \E i \in DOMAIN fileOutcomes : fileOutcomes[i] = "reject"

\* C12: in both load routines of App.tsx and in part_001, when the fetch of
\* an item file is rejected or its body is no JSON, the load ends with the
\* items of exactly the files whose fetch succeeded
C12_FailedFileOmitted ==
    FilesSettledWithFailure =>
        /\ pc = "done"
        /\ items = Processed(FetchedOk, projectsData, questsData, tradesData)

\* what the revisions do: the first App.tsx revision and part_001 drop the
\* failed file; the second App.tsx revision drops a file whose body is no
\* JSON, and ends the load without items when a fetch is rejected
C12_Observed ==
    /\ (FilesSettledWithFailure /\ ~(rev = "v2" /\ FileRejected)) =>
            /\ pc = "done"
            /\ items = Processed(FetchedOk, projectsData, questsData, tradesData)
            /\ Len(items) < Len(itemsList.list)
    /\ (FilesSettledWithFailure /\ rev = "v2" /\ FileRejected) =>
            /\ pc = "failed"
            /\ items = <<>>
            /\ error # NoError


(***************************************************************************)
(* Claims about the detail fetch of part_002 and the navigation (SpecView) *)
(***************************************************************************)
\* a call of goDetail resumes in this step: its fetch is no longer in flight
DetailFetchCompletes == rev = "p2" /\ pc' = pc /\ Len(pending') = Len(pending) - 1

\* C13: in part_002, when fetchGithubDetail of a call of goDetail yields
\* null, the call sets detailItem to the item that was clicked, a record of
\* the items list, unchanged; the detail view then shows that record
C13_NullDetailFallsBack ==
    [][(DetailFetchCompletes /\ lastCall'[1].ghDetail = <<>>) =>
            /\ lastCall'[1].item \in Range(pending)
            /\ lastCall'[1].item \in Range(items)
            /\ detailItem' = Some(lastCall'[1].item)
            /\ ~isDetailLoading'
            /\ view' = "DETAIL" => (Frame' = "DETAIL" /\ activeItem' = Some(lastCall'[1].item))]_vars

\* the detail fetch of the selected item has failed, and the detail view
\* shows the selected item as the list holds it
C13_Witness ==
    /\ rev = "p2"
    /\ view = "DETAIL"
    /\ pending = <<>>
    /\ lastCall # <<>>
    /\ lastCall[1].ghDetail = <<>>
    /\ lastCall[1].item = selectedItem[1]
    /\ detailItem = selectedItem
    /\ selectedItem[1] \in Range(items)
    /\ ~isDetailLoading


\* C14: in the revisions that have views (App.tsx with cache key v14,
\* part_001, part_002), BACK in the detail view leads to the view that was
\* shown last before the detail view, CATEGORY with the category it had or
\* DASHBOARD, and changes neither activeCategory nor selectedItem
C14_BackReturnsToLastView ==
    [][(rev # "v2" /\ Back) =>
            /\ view = "DETAIL"
            /\ view' = lastView[1]
            /\ view' \in {"CATEGORY", "DASHBOARD"}
            /\ view' = "CATEGORY" => (activeCategory' = lastView[2] /\ activeCategory' # Null)
            /\ activeCategory' = activeCategory
            /\ selectedItem' = selectedItem]_vars

\* BACK has led from the detail view to the category list: in App.tsx no
\* other click shows a category while an item is selected
C14_Witness ==
    /\ rev = "v14"
    /\ view = "CATEGORY"
    /\ lastView = <<"CATEGORY", activeCategory>>
    /\ activeCategory \in CategoryTypes
    /\ selectedItem # NullItem


\* the load routine has set the items, and does not run in this step
AfterLoad == pc \in {"done", "cached"} /\ pc' = pc

\* the items as the load routine of the revision computes them
ItemsAsLoaded ==
    IF rev = "p2" THEN ProcessP2(rawItems, questsData, projectsData, tradesData)
    ELSE Processed(rawItems, projectsData, questsData, tradesData)

\* C15: once the load has set the items, no step (search, sort, raid mode,
\* navigation, opening a detail, the completion of a detail fetch) changes the
\* items list or a field of a record in it
C15_ItemsReadOnlyAfterLoad ==
    [][AfterLoad => items' = items]_vars /\ [](pc = "done" => items = ItemsAsLoaded)

\* after a search, a change of the sort key and a completed detail fetch that
\* enriched the selected record, in a category list whose order differs from
\* the order of the items
C15_Witness ==
    /\ rev = "p2"
    /\ pc = "done"
    /\ search # <<>>
    /\ sortBy = "Value (High)"
    /\ view = "DETAIL"
    /\ lastView[1] = "CATEGORY"
    /\ detailItem # NullItem
    /\ detailItem[1] \notin Range(items)
    /\ selectedItem[1] \in Range(items)
    /\ Len(items) = 3
    /\ Sort(rev, sortBy, items) # items
    /\ items = ItemsAsLoaded


(***************************************************************************)
(* Claims about the flags of the classifiers (SpecClassify)                *)
(***************************************************************************)
\* the number of flags of the record that are true
FlagCount(item) ==
    Cardinality({f \in {"isQuestItem", "isProjectItem", "isUpgradeItem", "isSafeToRecycle"} :
                    item[f]})

\* the flag that the precedence quest, project, upgrade, safe gives a name
PrecedenceFlag(name) ==
    IF checkCategory(name, OVERRIDES_QUEST) THEN "isQuestItem"
    ELSE IF checkCategory(name, OVERRIDES_PROJECT) THEN "isProjectItem"
    ELSE IF checkCategory(name, OVERRIDES_UPGRADE) THEN "isUpgradeItem"
    ELSE "isSafeToRecycle"

\* C16: in part_001 every processed item has exactly one of the four flags
\* true: the first of quest, project, upgrade whose keywords its name matches,
\* and safe-to-recycle when it matches none
C16_ExactlyOneFlagByPrecedence ==
    Loaded("p1") =>
        \A i \in DOMAIN items :
            /\ FlagCount(items[i]) = 1
            /\ items[i][PrecedenceFlag(items[i].name)]

\* the loaded items hold a quest item whose name also matches a PROJECT
\* keyword and a project item whose name also matches an UPGRADE keyword
C16_Witness ==
    /\ Loaded("p1")
    /\ \E i \in DOMAIN items :
          /\ checkCategory(items[i].name, OVERRIDES_QUEST)
          /\ checkCategory(items[i].name, OVERRIDES_PROJECT)
          /\ items[i].isQuestItem
    /\ \E i \in DOMAIN items :
          /\ ~checkCategory(items[i].name, OVERRIDES_QUEST)
          /\ checkCategory(items[i].name, OVERRIDES_PROJECT)
          /\ checkCategory(items[i].name, OVERRIDES_UPGRADE)
          /\ items[i].isProjectItem


\* the number of the flags quest, project and upgrade of the record that are true
PrimaryCount(item) ==
    Cardinality({f \in {"isQuestItem", "isProjectItem", "isUpgradeItem"} : item[f]})

\* C17: in the fuzzy-key classifier of App.tsx every processed item has at
\* most one of isQuestItem, isProjectItem and isUpgradeItem true, and
\* isSafeToRecycle is true exactly when none of them is
C17_AtMostOnePrimaryFlag ==
    rev = "v14" =>
        \A i \in DOMAIN items :
            /\ PrimaryCount(items[i]) <= 1
            /\ items[i].isSafeToRecycle = (PrimaryCount(items[i]) = 0)

\* what the classifier does: only project and upgrade exclude each other; the
\* quest flag is set whatever the other two are; safe-to-recycle is true
\* exactly when none of the three is
C17_Observed ==
    rev = "v14" =>
        \A i \in DOMAIN items :
            /\ ~(items[i].isProjectItem /\ items[i].isUpgradeItem)
            /\ items[i].isSafeToRecycle = (PrimaryCount(items[i]) = 0)
            /\ PrimaryCount(items[i]) <= 2


\* C18: in part_002 the step in which a call of goDetail resumes after its
\* fetch, with a document or with null, changes detailItem and
\* isDetailLoading only; the view changes in steps of a click only
C18_DetailCompletionFrame ==
    /\ [][DetailFetchCompletes =>
            /\ detailItem' = Enriched(lastCall'[1].item, lastCall'[1].ghDetail)
            /\ ~isDetailLoading'
            /\ UNCHANGED <<view, activeCategory, selectedItem, search, sortBy>>
            /\ UNCHANGED <<items, loading>>]_vars
    /\ [][(rev = "p2" /\ view' # view) => (GoCategory \/ GoHome \/ GoDetail \/ Back)]_vars

\* a call of goDetail has resumed while the fetch of a later click is in
\* flight: the item selected and the view are those of the later click, the
\* detail record is that of the earlier one
C18_Witness ==
    /\ rev = "p2"
    /\ lastCall # <<>>
    /\ lastCall[1].ghDetail # <<>>
    /\ pending # <<>>
    /\ selectedItem = Some(pending[Len(pending)])
    /\ lastCall[1].item # selectedItem[1]
    /\ detailItem = Enriched(lastCall[1].item, lastCall[1].ghDetail)
    /\ ~isDetailLoading
    /\ view = "DETAIL"


(***************************************************************************)
(* Claims about the requests of a load (SpecPages, SpecChunks)             *)
(***************************************************************************)
\* the records of the pages 1 .. n of a list of the API, in page order
RECURSIVE Pages(_, _)
Pages(list, n) == IF n = 0 THEN <<>> ELSE Pages(list, n - 1) \o PageOf(list, n)

\* a response to a request of fetchApiList arrives in this step
ApiResponseArrives == rev = "p2" /\ pc \in {"api_items", "api_quests"} /\ <<pc, page>>' # <<pc, page>>

\* the step of a call of fetchApiList that has fetched acc and gets to acc2:
\* it goes on with the next page behind a page with records, or it returns
\* what it had, or that and the page of request number 49
PagedStep(list, acc, acc2) ==
    LET records == PageOf(list, page)
    IN  /\ pc' = pc =>
              /\ page' = page + 1
              /\ records # <<>>
              /\ acc2 = acc \o records
              /\ fetches' = fetches + 1
        /\ pc' # pc =>
              /\ fetches' = fetches
              /\ \/ acc2 = acc
                 \/ acc2 = acc \o records /\ page = PageLimit - 1

\* C19: fetchApiList of part_002 requests the pages 1, 2, 3, ... one at a
\* time, makes at most 49 requests, and returns the records of the pages
\* before the one it stopped at, in page order
C19_PagedFetchBounded ==
    /\ [](rev = "p2" =>
            /\ pc \in {"api_items", "api_quests"} => page \in 1..(PageLimit - 1)
            /\ pc = "api_items" =>
                    (rawItems = Pages(srvItems, page - 1) /\ fetches = 4 + (page - 1))
            /\ pc = "api_quests" => questsData = Pages(srvQuests, page - 1)
            /\ pc \in {"api_quests", "static", "done", "thrown"} =>
                    \E n \in 0..(PageLimit - 1) : rawItems = Pages(srvItems, n)
            /\ pc \in {"static", "done", "thrown"} =>
                    \E n \in 0..(PageLimit - 1) : questsData = Pages(srvQuests, n)
            /\ fetches <= 2 + 2 * (PageLimit - 1))
    /\ [][ApiResponseArrives =>
            IF pc = "api_items"
            THEN PagedStep(srvItems, rawItems, rawItems') /\ questsData' = questsData
            ELSE PagedStep(srvQuests, questsData, questsData') /\ rawItems' = rawItems]_vars

\* the call for the items has made its 49 requests and returned 49 of the
\* records, which are more; the call for the quests has stopped at a failed request for page
\* 2 and returned page 1
C19_Witness ==
    /\ rev = "p2"
    /\ pc = "static"
    /\ srvPageCap = 1
    /\ Len(srvItems) >= PageLimit
    /\ rawItems = SubSeq(srvItems, 1, PageLimit - 1)
    /\ ~listFailed
    /\ PageOf(srvQuests, 2) # <<>>
    /\ questsData = PageOf(srvQuests, 1)
    /\ fetches = 4 + (PageLimit - 2) + 1


\* the fetches of item files that have been called and have not settled
ItemFetchesInFlight == Len(requested) - Len(fileOutcomes)

\* C20: in the chunk loops of App.tsx and part_001 at most 50 fetches of item
\* files are in flight, the fetches of a chunk are called when every earlier
\* fetch has settled, and the load calls fetch once for every entry of the
\* listing, in the order of the listing
C20_ChunkedDownload ==
    /\ [](rev \in FileRevs =>
            /\ ItemFetchesInFlight \in 0..chunkSize
            /\ Len(requested) <= Len(itemsList.list)
            /\ requested = Names(SubSeq(itemsList.list, 1, Len(requested)))
            /\ pc = "chunks" => ItemFetchesInFlight > 0
            /\ pc = "done" => (requested = Names(itemsList.list) /\ ItemFetchesInFlight = 0))
    /\ [][Len(requested') > Len(requested) =>
            /\ Len(fileOutcomes') = Len(requested)
            /\ Len(requested') - Len(requested) <= chunkSize]_vars

\* the third chunk of a listing is in flight: the fetches of the first two
\* chunks have settled, fetch has been called once for every entry
C20_Witness ==
    /\ rev \in FileRevs
    /\ pc = "chunks"
    /\ Len(itemsList.list) > 2 * chunkSize
    /\ chunkStart = 2 * chunkSize
    /\ Len(fileOutcomes) = 2 * chunkSize
    /\ requested = Names(itemsList.list)
    /\ Cardinality(Range(requested)) = Len(itemsList.list)


(***************************************************************************)
(* Claims about the project graph of part_002 (SpecGraph)                  *)
(***************************************************************************)
\* the cost of the project names the identifier: as the item of an entry of
\* an array, or as a key of an object
CostReferences(proj, id) ==
    /\ proj.costKind \in {"array", "dict"}
    /\ \E i \in DOMAIN proj.cost : proj.cost[i].item = id

\* the places of the data set where a name that references id comes first
FirstReferences(projects, id) ==
    {k \in DOMAIN projects :
        /\ CostReferences(projects[k], id)
        /\ \A j \in 1..(k - 1) :
              ~(CostReferences(projects[j], id) /\ projects[j].name = projects[k].name)}

\* list holds the names of the projects that reference id, each once, in the
\* order of the data set
IsUsageList(list, projects, id) ==
    LET first == FirstReferences(projects, id)
    IN  /\ Len(list) = Cardinality(first)
        /\ \A i \in DOMAIN list : \E k \in first : projects[k].name = list[i]
        /\ \A i, j \in DOMAIN list : i # j => list[i] # list[j]
        /\ \A i, j \in DOMAIN list :
              i < j => \E k, l \in first :
                          k < l /\ projects[k].name = list[i] /\ projects[l].name = list[j]

\* C21: in part_002 after init, computedUsedInProjects of every item is the
\* list of the names of the projects whose cost, an array or an object,
\* references the item's id: in the order of the data set, no name twice
C21_UsedInProjectsExact ==
    Loaded("p2") =>
        \A i \in DOMAIN items :
            IsUsageList(items[i].computedUsedInProjects, projectsData, items[i].id)

\* three projects reference the items: two of one name through arrays, one
\* through an object; an item has fewer names than projects that reference
\* it, another has two names
C21_Witness ==
    /\ Loaded("p2")
    /\ Len(projectsData) = 3
    /\ \E k \in DOMAIN projectsData : projectsData[k].costKind = "dict"
    /\ \E i \in DOMAIN items :
          /\ Len(items[i].computedUsedInProjects) = 1
          /\ Cardinality({k \in DOMAIN projectsData :
                             CostReferences(projectsData[k], items[i].id)}) = 2
    /\ \E i \in DOMAIN items : Len(items[i].computedUsedInProjects) = 2
    /\ \E i \in DOMAIN items : items[i].computedUsedInProjects = <<>>


(***************************************************************************)
(* Claims about overlapping calls of goDetail of part_002 (SpecView)       *)
(***************************************************************************)
\* C22: in part_002, whenever detailItem is not null its id is the id of
\* selectedItem, whatever the order in which the fetches of two clicks
\* complete
C22_DetailItemIsSelectedItem ==
    (rev = "p2" /\ detailItem # NullItem) =>
        /\ selectedItem # NullItem
        /\ detailItem[1].id = selectedItem[1].id

\* a fetch of the item that is selected has been started and has not completed
SelectedFetchInFlight ==
    /\ selectedItem # NullItem
    /\ \E k \in DOMAIN pending : pending[k] = selectedItem[1]

\* C23: in part_002, isDetailLoading is true in every state in which the
\* fetch of the detail of the selected item is in flight
C23_LoadingWhileSelectedFetchInFlight ==
    (rev = "p2" /\ SelectedFetchInFlight) => isDetailLoading


(***************************************************************************)
(* Claims about the view state machine (SpecView)                          *)
(***************************************************************************)
\* C24: in the revisions with the view state machine (the fuzzy key revision
\* of App.tsx, part_001, part_002) the category view has a category, the
\* detail view has a selected item, the dashboard has no category
C24_ViewInvariants ==
    rev \in {"v14", "p1", "p2"} =>
        /\ view = "CATEGORY" => activeCategory # Null
        /\ view = "DETAIL" => selectedItem # NullItem
        /\ view = "DASHBOARD" => activeCategory = Null
        /\ view \in {"DASHBOARD", "CATEGORY", "DETAIL"}

\* the dashboard, reached again after a category and the detail of one of
\* its items were shown
C24_Witness ==
    /\ rev \in {"p1", "p2"}
    /\ view = "DASHBOARD"
    /\ activeCategory = Null
    /\ selectedItem # NullItem
    /\ lastView = <<"DASHBOARD", Null>>


(***************************************************************************)
(* Claims about the end of a load (SpecLoadFair)                           *)
(***************************************************************************)
\* C25: in every revision, whichever fetches of the first load fail, loading
\* becomes false at some time, when every fetch that was issued settles
C25_LoadingEventuallyFalse == <>(~loading)


(***************************************************************************)
(* Claims about normalizeDetailItem (SpecView)                             *)
(***************************************************************************)
\* the call of goDetail that resumed last got a document, and detailItem is
\* the record normalizeDetailItem made of it
DetailItemNormalized ==
    /\ rev = "p2"
    /\ lastCall # <<>>
    /\ lastCall[1].ghDetail # <<>>
    /\ detailItem = Some(normalizeDetailItem(lastCall[1].item, lastCall[1].ghDetail[1]))

\* C26: in part_002 no record that normalizeDetailItem produces has both
\* isProjectItem and isSafeToRecycle, whatever the base item and the document
C26_ProjectItemNotSafe ==
    DetailItemNormalized => ~(detailItem[1].isProjectItem /\ detailItem[1].isSafeToRecycle)


(***************************************************************************)
(* Claims about ArcImage (SpecImage, SpecImageFair)                        *)
(***************************************************************************)
\* the steps of loadState that an error event may take
ErrorMoves == {<<"primary", "fallback">>, <<"fallback", "error">>}

\* the effect of a change of item.id runs
ResetStep == effectPending /\ ~effectPending' /\ imgChanges > 0

\* C27: ArcImage of part_001 is a machine of three states: while the item id
\* stays, loadState moves only from primary to fallback and from fallback to
\* error, on error events; error is left only when the item id has changed;
\* at most two URLs are fetched for an item id; a change of the item id sets
\* loadState to primary again
C27_ThreeStateMachine ==
    /\ [][(rev = "p1" /\ loadState' # loadState) =>
            \/ /\ <<loadState, loadState'>> \in ErrorMoves
               /\ imgId' = imgId
               /\ imgLoading
               /\ domSrc \notin imgFiles
            \/ /\ ResetStep
               /\ loadState' = "primary"]_vars
    /\ [][(rev = "p1" /\ ResetStep) => loadState' = "primary"]_vars
    /\ [](rev = "p1" =>
            /\ loadState \in {"primary", "fallback", "error"}
            /\ Cardinality(imgRequested) <= 2
            /\ imgRequested \subseteq {ImageUrl(imgId), ImageUrl(ReplaceSpaces(imgId))})

\* the item changed while the image of the item before was given up; the
\* two URLs of the new item, whose id has a space, failed as well
C27_Witness ==
    /\ rev = "p1"
    /\ imgChanges = 1
    /\ imgId = S_AnvilI
    /\ loadState = "error"
    /\ imgErrors = 2
    /\ imgRequested = {ImageUrl(S_AnvilI), ImageUrl(S_Anvil_I)}
    /\ domSrc = <<>>

\* none of the URLs that handleError of App.tsx goes through has a file
NoCandidateLoads == \A id \in ImgIds : Candidates(id) \cap imgFiles = {}

\* C28: in ArcImage of the fuzzy key revision of App.tsx, when every URL of
\* an item fails, handleError comes to the branch that hides the image
\* (opacity 0.1) after a bounded number of error events
C28_HiddenAfterAllFail ==
    (rev = "v14" /\ NoCandidateLoads) => <>(opacity = "0.1")


(***************************************************************************)
(* Claims about entries of local storage that are no cache (SpecCache)     *)
(***************************************************************************)
\* the entry is there and is no {timestamp, data} object
Unparsable(c) == c.kind \in {"corrupt", "empty", "nodata"}

\* C29: in both load routines of App.tsx, an entry that is invalid JSON or no
\* object with timestamp and data is removed from local storage and the load
\* goes on with the fetch of the item list; it ends with the items that a
\* load without an entry ends with
C29_UnparsableEntryRemoved ==
    /\ [][(LoadStarts(CachedRevs) /\ Unparsable(cache)) =>
            /\ cache' = NoCache
            /\ fetches' = 1
            /\ pc' = "list"
            /\ items' = items]_vars
    /\ [](pc = "done" => items = Processed(rawItems, projectsData, questsData, tradesData))


(***************************************************************************)
(* Claims about norm of part_001 (SpecNorm)                                *)
(***************************************************************************)
\* C30: norm of part_001 gives "Anvil I" and "Anvil_1" the same key, so that
\* MiniCard and itemDetails take the two spellings for one item
C30_AnvilSpellingsSameKey ==
    (rev = "p1" /\ keysDone /\ rawA = S_AnvilI /\ rawB = S_Anvil_1) => keysA = keysB
=============================================================================
